---- MODULE Spec2Model ----
(***************************************************************************)
(* Verification model of the scipy-2017 code generation tutorial helpers:  *)
(*   - mk_exprs_symbs          (notebook 32, symbolic_constr.py)           *)
(*   - VODEsys.integrate_vode  (notebook 45, odesys_vode.py)               *)
(*   - CythonODEsys.setup      (notebook 40, odesys_cython.py)             *)
(*   - the odeint cells of notebook 32 and of the Cython lesson            *)
(* Symbolic expressions are polynomials with integer coefficients in the   *)
(* rate constants and the concentrations, kept in the canonical form that  *)
(* the symbolic algebra library keeps sums in (like terms combined, zero   *)
(* terms dropped).                                                         *)
(***************************************************************************)
EXTENDS Integers, Sequences, FiniteSets, TLC

VARIABLES
  \* ---- mk_exprs_symbs (one call) ----
  rxns,        \* argument: the reaction list
  names,       \* argument: the species name list
  rxns0,       \* the caller's reaction list as it was before the call
  names0,      \* the caller's name list as it was before the call
  mk_pc,       \* position in mk_exprs_symbs
  symbs,       \* local symbs
  c,           \* local c: dict name -> symbol
  f,           \* local f: dict name -> expression
  k,           \* local k: list of rate constants
  ri,          \* index of the reaction the outer loop is at (1-based)
  ni,          \* index of the net_stoich item the inner loop is at (1-based)
  r,           \* local r: rate expression of the current reaction
  mk_ret,      \* the returned triple (NoRet while nothing was returned)
  mk_err,      \* the exception that left mk_exprs_symbs (NoErr if none)
  \* ---- notebook 32 after the call: lambdify, odeint, plot ----
  nb_pc,       \* the cell the notebook is at
  y0,          \* initial concentrations (list, in the order of names)
  k_vals,      \* rate-constant values (tuple, in the order of k)
  conc,        \* the solver's current state vector
  yout,        \* rows of the trajectory computed so far
  istate,      \* the solver's completion code (2: success, negative: failure)
  shown,       \* what the plot cell has drawn and printed
  \* ---- VODEsys.integrate_vode ----
  vo_pc,        \* position in integrate_vode
  call_no,      \* number of integrate_vode calls made on the system
  tout,         \* argument: output times (0-based array)
  vo_y0,        \* argument: initial state
  vo_yout,      \* local yout: array of rows (0-based)
  idx,          \* loop variable
  r_y,          \* r.y: the solver object's state vector
  r_alias,      \* whether r.y shares memory with yout[0, :]
  r_t,          \* r.t
  r_success,    \* r.successful()
  f_ncall,      \* f.ncall
  j_ncall,      \* j.ncall
  vo_ret,       \* the value returned by this call (NoVodeRet if none)
  f_eval_calls, \* history: self.f_eval invocations during this call
  j_eval_calls, \* history: self.j_eval invocations during this call
  integrated,   \* history: the r.integrate calls of this call, [t, y]: the time
                \* passed and the solver state when it returned
  vo_params,    \* argument: params
  f_params,     \* r.f_params: the extra arguments the solver passes to f
  jac_params,   \* r.jac_params: the extra arguments the solver passes to j
  eval_args,    \* history: the latest f_eval / j_eval invocation and the
                \* callback invocation it came from
  \* ---- CythonODEsys.setup and the evaluation backends ----
  objs,         \* the systems constructed so far; the last one is in setup
  su_pc,        \* position in setup
  files,        \* working directory: file name -> content
  sys_modules,  \* sys.modules: module name -> loaded module
  mod,          \* local mod
  builds,       \* history: extension builds attempted by this setup
  ev,           \* the last evaluation of f_eval / j_eval by the backends
  \* ---- MOLsys.f_eval (notebook 60) ----
  mol_pc,       \* position in f_eval
  mol_sys,      \* self: the reaction system (f, y, p) the MOLsys was built from
  n_lines,      \* self.n_lines
  dx,           \* self.dx
  D,            \* self.D (0-based list, one diffusion constant per species)
  mol_y,        \* argument y (0-based array of length ny*n_lines)
  mol_params,   \* argument params
  mol_i,        \* loop variable i
  f_out,        \* local f_out (0-based array)
  j_out,        \* j_eval: local j_out, keyed by <<row, column>>
  mol_acc,      \* history: the indices (k-1)*ny + j, k*ny + j, (k+1)*ny + j
                \* that f_eval and j_eval have used
  \* ---- functions of the tutorial notebooks, one call at a time ----
  fn_pc,        \* the function called and how far the call is
  fn_in,        \* its arguments
  fn_loc,       \* its locals
  fn_out        \* its result

mkVars == <<rxns, names, rxns0, names0, mk_pc, symbs, c, f, k, ri, ni, r, mk_ret, mk_err>>
trajVars == <<nb_pc, y0, k_vals, conc, yout, istate, shown>>
vodeVars == <<vo_pc, call_no, tout, vo_y0, vo_yout, idx, r_y, r_alias, r_t, r_success,
              f_ncall, j_ncall, vo_ret, f_eval_calls, j_eval_calls, integrated,
              vo_params, f_params, jac_params, eval_args>>
setupVars == <<objs, su_pc, files, sys_modules, mod, builds, ev>>
molVars == <<mol_pc, mol_sys, n_lines, dx, D, mol_y, mol_params, mol_i, f_out,
             j_out, mol_acc>>
fnVars == <<fn_pc, fn_in, fn_loc, fn_out>>
vars == <<mkVars, trajVars, vodeVars, setupVars, molVars, fnVars>>

None == "None"
NoErr == [exc |-> None, at |-> None]
Raise(exc, at) == [exc |-> exc, at |-> at]

\* ------------------------------------------------------------------------
\* Bounds of the model
\* ------------------------------------------------------------------------
MaxRxns == 3
MaxTout == 3
MaxConc == 1000
MaxCb == 1
MaxCalls == 2
MaxObjs == 2
NameSpace == 2
MinLines == 3
MaxLines == 4
MaxVal == 2
MaxLen == 3
MaxNegExp == 3
MinExp == 0 - MaxNegExp
MaxExp == 9
MaxElems == 3

\* ------------------------------------------------------------------------
\* Python values: dicts are sequences of <<key, value>> items (insertion
\* order is iteration order); a multiplicity is a Python int or a value that
\* is not a number (a str).
\* ------------------------------------------------------------------------
PyInt(n) == [kind |-> "int", v |-> n]
PyStr == [kind |-> "str", v |-> 0]
IsNumber(p) == p.kind = "int"

Keys(d) == {d[i][1] : i \in 1..Len(d)}
Range(s) == {s[i] : i \in 1..Len(s)}

AllSpecies == {"A", "B", "C"}

\* ------------------------------------------------------------------------
\* Symbolic expressions.  A monomial is a rate constant times powers of
\* concentration symbols; an expression maps monomials to non-zero integer
\* coefficients.
\* ------------------------------------------------------------------------
One == [s \in AllSpecies |-> 0]
Mono(kname, e) == [k |-> kname, e |-> e]
ZeroPoly == [m \in {} |-> 0]
Coef(p, m) == IF m \in DOMAIN p THEN p[m] ELSE 0

PolyAdd(p, q) ==
  LET ms == DOMAIN p \cup DOMAIN q
  IN  [m \in {x \in ms : Coef(p, x) + Coef(q, x) # 0} |-> Coef(p, m) + Coef(q, m)]

PolyScale(n, p) ==
  [m \in {x \in DOMAIN p : n * p[x] # 0} |-> n * p[m]]

Term(n, m) == PolyScale(n, [x \in {m} |-> 1])

\* c[rk]**p multiplied into the running product (reduce(mul, seq))
MulPow(e, s, p) == [e EXCEPT ![s] = @ + p]

\* [c[rk]**p for rk, p in r_stoich.items()] folded by prod(): the items are
\* visited in order; c[rk] is looked up before ** is applied.
RECURSIVE PowList(_, _, _, _)
PowList(items, i, cd, e) ==
  IF i > Len(items) THEN [err |-> NoErr, e |-> e]
  ELSE LET rk == items[i][1]
           p  == items[i][2]
       IN  IF rk \notin DOMAIN cd THEN [err |-> Raise("KeyError", "c[rk]"), e |-> e]
           ELSE IF ~IsNumber(p) THEN [err |-> Raise("TypeError", "c[rk]**p"), e |-> e]
           ELSE PowList(items, i + 1, cd, MulPow(e, cd[rk], p.v))

\* a variant that skips what it cannot raise to a power (c.get(rk), guarded **)
RECURSIVE PowListLenient(_, _, _, _)
PowListLenient(items, i, cd, e) ==
  IF i > Len(items) THEN [err |-> NoErr, e |-> e]
  ELSE LET rk == items[i][1]
           p  == items[i][2]
       IN  IF rk \notin DOMAIN cd \/ ~IsNumber(p) THEN PowListLenient(items, i + 1, cd, e)
           ELSE PowListLenient(items, i + 1, cd, MulPow(e, cd[rk], p.v))

prodLenient(items, cd) == PowListLenient(items, 1, cd, One)

\* prod(seq): reduce(mul, seq) if seq else 1
prod(items, cd) == PowList(items, 1, cd, One)

\* r = k[-1]*prod([...])
RateExpr(coeff, e) == Term(1, Mono(coeff, e))

\* variants: f[net_key] = net_mult*r (the sum is lost), and
\* f[net_key] += abs(net_mult)*r (the sign is lost)
AccumulateOverwrites(fd, net_key, net_mult, rate) ==
  IF net_key \notin DOMAIN fd THEN [err |-> Raise("KeyError", "f[net_key]"), f |-> fd]
  ELSE IF ~IsNumber(net_mult) THEN [err |-> Raise("TypeError", "net_mult*r"), f |-> fd]
  ELSE [err |-> NoErr, f |-> [fd EXCEPT ![net_key] = PolyScale(net_mult.v, rate)]]

AccumulateUnsigned(fd, net_key, net_mult, rate) ==
  IF net_key \notin DOMAIN fd THEN [err |-> Raise("KeyError", "f[net_key]"), f |-> fd]
  ELSE IF ~IsNumber(net_mult) THEN [err |-> Raise("TypeError", "net_mult*r"), f |-> fd]
  ELSE [err |-> NoErr,
        f |-> [fd EXCEPT ![net_key] =
                 PolyAdd(@, PolyScale(IF net_mult.v < 0 THEN -net_mult.v ELSE net_mult.v, rate))]]

\* f[net_key] += net_mult*r : f[net_key] is loaded first, then net_mult*r
\* is evaluated, then the sum is stored.
Accumulate(fd, net_key, net_mult, rate) ==
  IF net_key \notin DOMAIN fd THEN [err |-> Raise("KeyError", "f[net_key]"), f |-> fd]
  ELSE IF ~IsNumber(net_mult) THEN [err |-> Raise("TypeError", "net_mult*r"), f |-> fd]
  ELSE [err |-> NoErr,
        f |-> [fd EXCEPT ![net_key] = PolyAdd(@, PolyScale(net_mult.v, rate))]]

NoRet == [exprs |-> << >>, symbs |-> << >>, k |-> << >>]

\* [f[n] for n in names], symbs, tuple(k)
\* the rate constants with repeated names dropped
DistinctK(kl) ==
  LET keep == {j \in 1..Len(kl) : \A i \in 1..(j - 1) : kl[i] # kl[j]}
  IN  [n \in 1..Cardinality(keep) |->
         kl[CHOOSE j \in keep : Cardinality({i \in keep : i <= j}) = n]]
ReturnedDistinctK(fd, nms, sy, kl) ==
  [exprs |-> [i \in 1..Len(nms) |-> fd[nms[i]]], symbs |-> sy, k |-> DistinctK(kl)]

Returned(fd, nms, sy, kl) ==
  [exprs |-> [i \in 1..Len(nms) |-> fd[nms[i]]], symbs |-> sy, k |-> kl]

\* ------------------------------------------------------------------------
\* Inputs: the reactions of the notebooks, two open reactions and reactions
\* with a multiplicity that is not a number.
\* ------------------------------------------------------------------------
Rxn(coeff, rs, ns) == [coeff |-> coeff, r_stoich |-> rs, net_stoich |-> ns]

Robertson ==
  << Rxn("k1", << <<"A", PyInt(1)>> >>, << <<"B", PyInt(1)>>, <<"A", PyInt(-1)>> >>),
     Rxn("k2", << <<"B", PyInt(1)>>, <<"C", PyInt(1)>> >>,
               << <<"A", PyInt(1)>>, <<"B", PyInt(-1)>> >>),
     Rxn("k3", << <<"B", PyInt(2)>> >>, << <<"B", PyInt(-1)>>, <<"C", PyInt(1)>> >>) >>

Decay == << Rxn("k", << <<"A", PyInt(1)>> >>, << <<"B", PyInt(1)>>, <<"A", PyInt(-1)>> >>) >>

OpenRxns ==
  { Rxn("k", << >>, << <<"A", PyInt(1)>> >>),
    Rxn("k2", << <<"A", PyInt(2)>> >>, << <<"A", PyInt(-2)>>, <<"B", PyInt(1)>> >>) }

BadMultRxns ==
  { Rxn("k1", << <<"A", PyStr>> >>, << <<"B", PyInt(1)>>, <<"A", PyInt(-1)>> >>),
    Rxn("k3", << <<"B", PyInt(1)>> >>, << <<"A", PyInt(1)>>, <<"B", PyStr>> >>) }

Pool == Range(Robertson) \cup Range(Decay) \cup OpenRxns \cup BadMultRxns

RxnLists == UNION {[1..n -> Pool] : n \in 0..MaxRxns}

NameLists == { <<"A", "B", "C">>, <<"A", "B">>, <<"B", "A">> }

\* ------------------------------------------------------------------------
\* mk_exprs_symbs, statement by statement
\* ------------------------------------------------------------------------
\* symbs = sym.symbols(names, ...); c = dict(zip(names, symbs));
\* f = {n: 0 for n in names}; k = []
MkEnter ==
  /\ mk_pc = "call"
  /\ symbs' = names
  /\ c' = [n \in Range(names) |-> n]
  /\ f' = [n \in Range(names) |-> ZeroPoly]
  /\ k' = << >>
  /\ ri' = 1
  /\ mk_pc' = "loop"
  /\ UNCHANGED <<molVars, fnVars, rxns, names, rxns0, names0, ni, r, mk_ret, mk_err, trajVars, vodeVars, setupVars>>

\* for coeff, r_stoich, net_stoich in rxns: k.append(sym.S(coeff)); r = ...
MkRate ==
  /\ mk_pc = "loop"
  /\ ri <= Len(rxns)
  /\ LET rx == rxns[ri]
         pr == prod(rx.r_stoich, c)
     IN  /\ k' = Append(k, rx.coeff)
         /\ IF pr.err # NoErr
            THEN /\ mk_pc' = "raised"
                 /\ mk_err' = pr.err
                 /\ UNCHANGED <<r, ni>>
            ELSE /\ r' = RateExpr(rx.coeff, pr.e)
                 /\ ni' = 1
                 /\ mk_pc' = "net"
                 /\ UNCHANGED mk_err
  /\ UNCHANGED <<molVars, fnVars, rxns, names, rxns0, names0, symbs, c, f, ri, mk_ret, trajVars, vodeVars, setupVars>>

\* net_stoich.items(): the loop takes item n of reaction j's net_stoich; the
\* dict, and the list it is in, stay as they are
AfterItemPopped(rxl, j, n) ==
  [rxl EXCEPT ![j].net_stoich = SubSeq(@, 1, n - 1) \o SubSeq(@, n + 1, Len(@))]
AfterItem(rxl, j, n) == rxl

\* for net_key, net_mult in net_stoich.items(): f[net_key] += net_mult*r
MkAccum ==
  /\ mk_pc = "net"
  /\ ni <= Len(rxns[ri].net_stoich)
  /\ LET item == rxns[ri].net_stoich[ni]
         acc  == Accumulate(f, item[1], item[2], r)
     IN  IF acc.err # NoErr
         THEN /\ mk_pc' = "raised"
              /\ mk_err' = acc.err
              /\ UNCHANGED <<f, ni>>
         ELSE /\ f' = acc.f
              /\ ni' = ni + 1
              /\ UNCHANGED <<mk_pc, mk_err>>
  /\ rxns' = AfterItem(rxns, ri, ni)
  /\ UNCHANGED <<molVars, fnVars, names, rxns0, names0, symbs, c, k, ri, r, mk_ret, trajVars, vodeVars, setupVars>>

\* the inner loop is exhausted: next reaction
MkNextRxn ==
  /\ mk_pc = "net"
  /\ ni > Len(rxns[ri].net_stoich)
  /\ ri' = ri + 1
  /\ mk_pc' = "loop"
  /\ UNCHANGED <<molVars, fnVars, rxns, names, rxns0, names0, symbs, c, f, k, ni, r, mk_ret, mk_err, trajVars, vodeVars, setupVars>>

\* return [f[n] for n in names], symbs, tuple(k)
MkReturn ==
  /\ mk_pc = "loop"
  /\ ri > Len(rxns)
  /\ mk_ret' = Returned(f, names, symbs, k)
  /\ mk_pc' = "done"
  /\ UNCHANGED <<molVars, fnVars, rxns, names, rxns0, names0, symbs, c, f, k, ri, ni, r, mk_err, trajVars, vodeVars, setupVars>>

MkLocals0 ==
  /\ symbs = << >>
  /\ c = << >>
  /\ f = << >>
  /\ k = << >>
  /\ ri = 0
  /\ ni = 0
  /\ r = ZeroPoly
  /\ mk_ret = NoRet
  /\ mk_err = NoErr
  /\ nb_pc = "mk_exprs_symbs"
  /\ y0 = << >>
  /\ k_vals = << >>
  /\ conc = << >>
  /\ yout = << >>
  /\ istate = 0
  /\ shown = << >>

MkStart ==
  /\ rxns \in RxnLists
  /\ names \in NameLists
  /\ rxns0 = rxns
  /\ names0 = names
  /\ mk_pc = "call"
  /\ MkLocals0

MkOff ==
  /\ rxns = << >>
  /\ names = << >>
  /\ rxns0 = << >>
  /\ names0 = << >>
  /\ mk_pc = "off"
  /\ MkLocals0


\* ------------------------------------------------------------------------
\* Notebook 32 after the call: f = lambdify((y, t) + k, ydot), odeint, plot
\* ------------------------------------------------------------------------
RECURSIVE Pow(_, _)
Pow(b, n) == IF n <= 0 THEN 1 ELSE b * Pow(b, n - 1)

RECURSIVE PowProd(_, _, _)
PowProd(e, env, ss) ==
  IF ss = {} THEN 1
  ELSE LET s == CHOOSE x \in ss : TRUE
       IN  (IF e[s] = 0 THEN 1 ELSE Pow(env[s], e[s])) * PowProd(e, env, ss \ {s})

RECURSIVE SumTerms(_, _, _, _)
SumTerms(p, ms, env, kenv) ==
  IF ms = {} THEN 0
  ELSE LET m == CHOOSE x \in ms : TRUE
       IN  p[m] * kenv[m.k] * PowProd(m.e, env, DOMAIN m.e)
             + SumTerms(p, ms \ {m}, env, kenv)

\* the numeric value of an expression with its symbols bound to numbers
Eval(p, env, kenv) == SumTerms(p, DOMAIN p, env, kenv)

\* positional binding of argument symbols to the values passed
Bind(syms, vals) ==
  [n \in {syms[i] : i \in DOMAIN syms} |-> vals[CHOOSE i \in DOMAIN syms : syms[i] = n]]

NoDuplicates(s) == \A i, j \in 1..Len(s) : s[i] = s[j] => i = j

\* f(y, t, *k) for f = sym.lambdify((y, t) + k, ydot)
Lambdified(ret, y, kv) ==
  [i \in 1..Len(ret.exprs) |-> Eval(ret.exprs[i], Bind(ret.symbs, y), Bind(ret.k, kv))]

Y0Choices(n) == { [i \in 1..n |-> IF i = 1 THEN 1 ELSE 0], [i \in 1..n |-> IF i = 1 THEN 2 ELSE 1] }
KValChoices(n) == { [j \in 1..n |-> 1], [j \in 1..n |-> j + 1] }

\* one solver step on the callback (unit step size)
SolverStep(ret, y, kv) ==
  LET dy == Lambdified(ret, y, kv) IN [i \in 1..Len(y) |-> y[i] + dy[i]]

\* f = sym.lambdify((y, t) + k, ydot): the generated lambda takes one
\* parameter per symbol of k, so a repeated symbol is a SyntaxError
NbLambdify ==
  /\ nb_pc = "mk_exprs_symbs"
  /\ mk_pc = "done"
  /\ nb_pc' = IF NoDuplicates(mk_ret.k) THEN "lambdified" ELSE "SyntaxError"
  /\ UNCHANGED <<molVars, fnVars, mkVars, vodeVars, setupVars, y0, k_vals, conc, yout, istate, shown>>

\* yout, info = odeint(f, y0, tout, k_vals, full_output=True): row 0 is y0
OdeintCall ==
  /\ nb_pc = "lambdified"
  /\ \E y \in Y0Choices(Len(names)), kv \in KValChoices(Len(mk_ret.k)) :
       /\ y0' = y
       /\ k_vals' = kv
       /\ conc' = y
       /\ yout' = <<y>>
  /\ istate' = 0
  /\ nb_pc' = "odeint"
  /\ UNCHANGED <<molVars, fnVars, mkVars, vodeVars, setupVars, shown>>

\* the solver reaches the next output time (the model follows it while the
\* concentrations stay within MaxConc)
OdeintStep ==
  /\ nb_pc = "odeint"
  /\ Len(yout) < MaxTout
  /\ \A i \in 1..Len(conc) : conc[i] <= MaxConc /\ -conc[i] <= MaxConc
  /\ conc' = SolverStep(mk_ret, conc, k_vals)
  /\ yout' = Append(yout, conc')
  /\ UNCHANGED <<molVars, fnVars, mkVars, vodeVars, setupVars, nb_pc, y0, k_vals, istate, shown>>

\* the solver gives up before the next output time: odeint warns and
\* returns, the rows not reached are not computed
OdeintFail ==
  /\ nb_pc = "odeint"
  /\ Len(yout) < MaxTout
  /\ istate' = -1
  /\ nb_pc' = "odeint_returned"
  /\ UNCHANGED <<molVars, fnVars, mkVars, vodeVars, setupVars, y0, k_vals, conc, yout, shown>>

\* all output times reached
OdeintReturn ==
  /\ nb_pc = "odeint"
  /\ Len(yout) = MaxTout
  /\ istate' = 2
  /\ nb_pc' = "odeint_returned"
  /\ UNCHANGED <<molVars, fnVars, mkVars, vodeVars, setupVars, y0, k_vals, conc, yout, shown>>

\* plt.loglog(tout, yout); plt.legend(names); print(... info['nje'][-1])
NbPlot ==
  /\ nb_pc = "odeint_returned"
  /\ shown' = [yout |-> yout, istate |-> istate]
  /\ nb_pc' = "plotted"
  /\ UNCHANGED <<molVars, fnVars, mkVars, vodeVars, setupVars, y0, k_vals, conc, yout, istate>>

NextMk ==
  \/ MkEnter \/ MkRate \/ MkAccum \/ MkNextRxn \/ MkReturn
  \/ NbLambdify \/ OdeintCall \/ OdeintStep \/ OdeintFail \/ OdeintReturn \/ NbPlot

\* ------------------------------------------------------------------------
\* VODEsys.integrate_vode (notebook 45)
\* ------------------------------------------------------------------------
Size(a) == Cardinality(DOMAIN a)
NoVodeRet == [yout |-> << >>, info |-> [num_rhs |-> -1, num_dls_jac_evals |-> -1]]

TOuts == { [i \in 0..(n - 1) |-> 10 * i] : n \in 1..MaxTout }
VodeY0s == { <<1>>, <<1, 0>> }

\* f.ncall = 0 / j.ncall = 0: the counters are attributes of the closures
\* created by this call
NcallKept(prev) == prev
NcallAtCall(prev) == 0

\* yout[idx, :] = r.y : the row written
RowBefore(i) == i - 1
RowWritten(i) == i

\* r.integrate: the solver wrapper copies the array it is given and hands
\* back a new one
SolverWorksOnCopy == TRUE

\* assert r.successful(), "Integration failed"
AssertSkipped(ok) == TRUE
AssertPasses(ok) == ok

\* parameter values; a tuple is one value
PyFloat(x) == [kind |-> "float", v |-> <<x>>]
PyTuple(items) == [kind |-> "tuple", v |-> items]
VodeParams == { << >>, <<PyFloat(5)>>, <<PyFloat(5), PyFloat(6)>> }

\* ode.set_f_params(self, *args) / set_jac_params(self, *args): self.f_params
\* = args, the tuple of the positional arguments of the call
set_f_params(args) == args

\* if params: r.set_f_params(params); r.set_jac_params(params): one
\* positional argument, the sequence params itself; () is the default
ParamsSet(params) == IF params # << >> THEN set_f_params(<<PyTuple(params)>>) ELSE << >>

\* def f(t, y, *args): ... self.f_eval(y, t, *args)
NoCall == [fn |-> "none", cb |-> [t |-> 0, y |-> << >>, args |-> << >>],
           first |-> << >>, second |-> 0, rest |-> << >>]
EvalCall(fn, t, y, args) ==
  [fn |-> fn, cb |-> [t |-> t, y |-> y, args |-> args], first |-> y, second |-> t, rest |-> args]

\* lines 41-57: the callbacks and their counters, the solver object, yout
\* with row 0 set to y0, the solver started from the view yout[0, :]
VodeCall ==
  /\ vo_pc \in {"idle", "returned", "AssertionError"}
  /\ call_no < MaxCalls
  /\ call_no' = call_no + 1
  /\ \E to \in TOuts, y \in VodeY0s, params \in VodeParams :
       /\ tout' = to
       /\ vo_params' = params
       /\ f_params' = ParamsSet(params)
       /\ jac_params' = ParamsSet(params)
       /\ vo_y0' = y
       /\ vo_yout' = [i \in 0..(Size(to) - 1) |-> IF i = 0 THEN y ELSE [c0 \in 1..Len(y) |-> 0]]
       /\ r_y' = y
       /\ r_t' = to[0]
  /\ r_alias' = TRUE
  /\ r_success' = TRUE
  /\ f_ncall' = NcallAtCall(f_ncall)
  /\ j_ncall' = NcallAtCall(j_ncall)
  /\ idx' = 1
  /\ vo_ret' = NoVodeRet
  /\ f_eval_calls' = 0
  /\ j_eval_calls' = 0
  /\ integrated' = << >>
  /\ eval_args' = NoCall
  /\ vo_pc' = "loop"
  /\ UNCHANGED <<molVars, fnVars, mkVars, trajVars, setupVars, setupVars>>

\* for idx in range(1, len(tout)): r.integrate(tout[idx]) is entered
VodeIntegrate ==
  /\ vo_pc = "loop"
  /\ idx < Size(tout)
  /\ integrated' = Append(integrated, [t |-> tout[idx], y |-> << >>])
  /\ vo_pc' = "solving"
  /\ UNCHANGED <<vo_params, f_params, jac_params, eval_args>>
  /\ UNCHANGED <<molVars, fnVars, mkVars, trajVars, setupVars, call_no, tout, vo_y0, vo_yout, idx, r_y, r_alias, r_t,
                 r_success, f_ncall, j_ncall, vo_ret, f_eval_calls, j_eval_calls>>

\* the solver calls f(t, y, *args): f.ncall += 1, then self.f_eval(y, t, *args)
SolverCallsF ==
  /\ vo_pc = "solving"
  /\ f_ncall < MaxCb * idx
  /\ f_ncall' = f_ncall + 1
  /\ f_eval_calls' = f_eval_calls + 1
  /\ \E dt \in 0..1 : eval_args' = EvalCall("f_eval", r_t + dt, r_y, f_params)
  /\ UNCHANGED <<vo_params, f_params, jac_params, molVars, fnVars, mkVars, trajVars, setupVars, vo_pc, call_no, tout, vo_y0, vo_yout, idx, r_y, r_alias,
                 r_t, r_success, j_ncall, vo_ret, j_eval_calls, integrated>>

\* the solver calls j(t, y, *args): j.ncall += 1, then self.j_eval(y, t, *args)
SolverCallsJ ==
  /\ vo_pc = "solving"
  /\ j_ncall < MaxCb * idx
  /\ j_ncall' = j_ncall + 1
  /\ j_eval_calls' = j_eval_calls + 1
  /\ \E dt \in 0..1 : eval_args' = EvalCall("j_eval", r_t + dt, r_y, jac_params)
  /\ UNCHANGED <<vo_params, f_params, jac_params, molVars, fnVars, mkVars, trajVars, setupVars, vo_pc, call_no, tout, vo_y0, vo_yout, idx, r_y, r_alias,
                 r_t, r_success, f_ncall, vo_ret, f_eval_calls, integrated>>

\* r.integrate returns: the solver wrapper works on a copy of the array it
\* is given and r.y becomes the array it hands back; the step succeeded or not
SolverReturns ==
  /\ vo_pc = "solving"
  /\ \E ok \in BOOLEAN, d \in {1, 2} :
       /\ r_success' = ok
       /\ r_y' = [i \in 1..Len(r_y) |-> r_y[i] + d]
       /\ r_t' = IF ok THEN tout[idx] ELSE r_t
  /\ vo_yout' = IF r_alias /\ ~SolverWorksOnCopy THEN [vo_yout EXCEPT ![0] = r_y'] ELSE vo_yout
  /\ r_alias' = (r_alias /\ ~SolverWorksOnCopy)
  /\ integrated' = [integrated EXCEPT ![Len(integrated)].y = r_y']
  /\ vo_pc' = "assert"
  /\ UNCHANGED <<vo_params, f_params, jac_params, eval_args>>
  /\ UNCHANGED <<molVars, fnVars, mkVars, trajVars, setupVars, call_no, tout, vo_y0, idx, f_ncall, j_ncall,
                 vo_ret, f_eval_calls, j_eval_calls>>

\* assert r.successful(), "Integration failed"; yout[idx, :] = r.y
VodeAssertStore ==
  /\ vo_pc = "assert"
  /\ IF AssertPasses(r_success)
     THEN /\ vo_yout' = [vo_yout EXCEPT ![RowWritten(idx)] = r_y]
          /\ idx' = idx + 1
          /\ vo_pc' = "loop"
     ELSE /\ vo_pc' = "AssertionError"
          /\ UNCHANGED <<vo_yout, idx>>
  /\ UNCHANGED <<vo_params, f_params, jac_params, eval_args>>
  /\ UNCHANGED <<molVars, fnVars, mkVars, trajVars, setupVars, call_no, tout, vo_y0, r_y, r_alias, r_t, r_success,
                 f_ncall, j_ncall, vo_ret, f_eval_calls, j_eval_calls, integrated>>

\* return yout, {'num_rhs': f.ncall, 'num_dls_jac_evals': j.ncall}
VodeReturn ==
  /\ vo_pc = "loop"
  /\ idx >= Size(tout)
  /\ vo_ret' = [yout |-> vo_yout, info |-> [num_rhs |-> f_ncall, num_dls_jac_evals |-> j_ncall]]
  /\ vo_pc' = "returned"
  /\ UNCHANGED <<vo_params, f_params, jac_params, eval_args>>
  /\ UNCHANGED <<molVars, fnVars, mkVars, trajVars, setupVars, call_no, tout, vo_y0, vo_yout, idx, r_y, r_alias, r_t,
                 r_success, f_ncall, j_ncall, f_eval_calls, j_eval_calls, integrated>>

VodeLocals0 ==
  /\ call_no = 0
  /\ tout = << >>
  /\ vo_y0 = << >>
  /\ vo_yout = << >>
  /\ idx = 0
  /\ r_y = << >>
  /\ r_alias = FALSE
  /\ r_t = 0
  /\ r_success = TRUE
  /\ f_ncall = 0
  /\ j_ncall = 0
  /\ vo_ret = NoVodeRet
  /\ f_eval_calls = 0
  /\ j_eval_calls = 0
  /\ integrated = << >>
  /\ vo_params = << >>
  /\ f_params = << >>
  /\ jac_params = << >>
  /\ eval_args = NoCall

VodeStart == vo_pc = "idle" /\ VodeLocals0
VodeOff == vo_pc = "off" /\ VodeLocals0

\* ------------------------------------------------------------------------
\* The ODE systems of the notebooks and their evaluation backends
\* ------------------------------------------------------------------------
\* mk_exprs_symbs as a function of its arguments (well-formed input)
RECURSIVE AccumAll(_, _, _, _)
AccumAll(fd, ns, i, rate) ==
  IF i > Len(ns) THEN fd
  ELSE AccumAll(Accumulate(fd, ns[i][1], ns[i][2], rate).f, ns, i + 1, rate)

RECURSIVE MkLoop(_, _, _, _)
MkLoop(fd, rxl, j, cd) ==
  IF j > Len(rxl) THEN fd
  ELSE MkLoop(AccumAll(fd, rxl[j].net_stoich, 1,
                       RateExpr(rxl[j].coeff, prod(rxl[j].r_stoich, cd).e)),
              rxl, j + 1, cd)

mk_exprs_symbs(rxl, nms) ==
  Returned(MkLoop([n \in Range(nms) |-> ZeroPoly], rxl, 1, [n \in Range(nms) |-> n]),
           nms, nms, [j \in 1..Len(rxl) |-> rxl[j].coeff])

\* d expr / d s
Lower(m, s) == [m EXCEPT !.e[s] = @ - 1]
PolyDiff(p, s) ==
  LET Ms == {m \in DOMAIN p : m.e[s] > 0}
  IN  [x \in {Lower(m, s) : m \in Ms} |->
         LET m == CHOOSE m0 \in Ms : Lower(m0, s) = x IN p[m] * m.e[s]]

ZeroBased(q) == [i \in 0..(Len(q) - 1) |-> q[i + 1]]

\* mk_rsys(cls, reactions, names, params): the object ODEsys.__init__ builds,
\* with f, y, p and j = Matrix(f).jacobian(y)
MkRsys(rxl, nms) ==
  LET ret == mk_exprs_symbs(rxl, nms)
      n   == Len(nms)
  IN  [f |-> ZeroBased(ret.exprs),
       y |-> ZeroBased(ret.symbs),
       p |-> ret.k,
       j |-> [rc \in (0..(n - 1)) \X (0..(n - 1)) |-> PolyDiff(ret.exprs[rc[1] + 1], nms[rc[2] + 1])]]

Systems == { MkRsys(Robertson, <<"A", "B", "C">>), MkRsys(Decay, <<"A", "B">>) }

Val(x) == [set |-> TRUE, v |-> x]
Uninit == [set |-> FALSE, v |-> 0]

\* ODEsys.f_eval / j_eval: self.lambdified_f(*chain(y, params))
DirectF(o, y, ps) ==
  [key \in {<<i>> : i \in DOMAIN o.f} |-> Val(Eval(o.f[key[1]], Bind(o.y, y), Bind(o.p, ps)))]
DirectJ(o, y, ps) ==
  [key \in DOMAIN o.j |-> Val(Eval(o.j[key], Bind(o.y, y), Bind(o.p, ps)))]

\* subs = {s: sym.Symbol('y[%d]' % i) for i, s in enumerate(self.y)}
Subs(o) ==
  [s \in {o.y[i] : i \in DOMAIN o.y} |->
     <<"y", CHOOSE i \in DOMAIN o.y : o.y[i] = s /\ \A i2 \in DOMAIN o.y : o.y[i2] = s => i2 <= i>>]

\* expr.xreplace(subs)
Renamed(m, subs) ==
  [k |-> m.k,
   e |-> [ys \in {subs[s] : s \in DOMAIN subs} |-> m.e[CHOOSE s \in DOMAIN subs : subs[s] = ys]]]
XReplace(p, subs) ==
  [x \in {Renamed(m, subs) : m \in DOMAIN p} |->
     p[CHOOSE m \in DOMAIN p : Renamed(m, subs) = x]]

\* 'out[%d, %d] = %s' % (ri, ci, ...): the element assigned
JOut(row, col) == <<row, col>>

\* cython_template % ctx: the source text written to the .pyx file
Rendered(o) ==
  LET n == Size(o.f)
  IN  [args    |-> o.p,
       f_exprs |-> [q \in 1..n |-> [out |-> <<q - 1>>, rhs |-> XReplace(o.f[q - 1], Subs(o))]],
       j_exprs |-> [q \in 1..(n * n) |->
                      LET row == (q - 1) \div n
                          col == (q - 1) % n
                      IN  [out |-> JOut(row, col), rhs |-> XReplace(o.j[<<row, col>>], Subs(o))]]]

\* the compiled f / j: out = np.empty(...); the assignments in order; return out
RunCompiled(code, args, keys, y, ps) ==
  LET yenv == [ys \in {<<"y", i>> : i \in DOMAIN y} |-> y[ys[2]]]
  IN  [key \in keys |->
         IF \E q \in 1..Len(code) : code[q].out = key
         THEN LET q == CHOOSE q0 \in 1..Len(code) :
                         /\ code[q0].out = key
                         /\ \A q1 \in 1..Len(code) : code[q1].out = key => q1 <= q0
              IN  Val(Eval(code[q].rhs, yenv, Bind(args, ps)))
         ELSE Uninit]

\* a call of a compiled function: the wrong number of arguments is a
\* TypeError, an index outside out (bounds checking is on) an IndexError
CallCompiled(fn, keys, y, ps) ==
  IF Len(fn.args) = Len(ps) /\ \A q \in 1..Len(fn.code) : fn.code[q].out \in keys
  THEN [ok |-> TRUE, out |-> RunCompiled(fn.code, fn.args, keys, y, ps)]
  ELSE [ok |-> FALSE, out |-> << >>]

CythonF(fn, y, ps) == CallCompiled(fn, {<<i>> : i \in DOMAIN y}, y, ps)
CythonJ(fn, y, ps) == CallCompiled(fn, (DOMAIN y) \X (DOMAIN y), y, ps)

Unbound == [compiled |-> FALSE, code |-> << >>, args |-> << >>]
Compiled(code, args) == [compiled |-> TRUE, code |-> code, args |-> args]
NoMod == [name |-> 0, f |-> Unbound, j |-> Unbound]
NoEv == [obj |-> 0]

\* the extension module built from a .pyx text
Module(n, src) ==
  [name |-> n, f |-> Compiled(src.f_exprs, src.args), j |-> Compiled(src.j_exprs, src.args)]

WriteFile(fs, fname, content) ==
  [fn \in DOMAIN fs \cup {fname} |-> IF fn = fname THEN content ELSE fs[fn]]

Cur == Len(objs)

EvalYs(n) == { [i \in 0..(n - 1) |-> i + 1], [i \in 0..(n - 1) |-> 2 - i] }
EvalPs(n) == { [i \in 1..n |-> i], [i \in 1..n |-> 3 - i] }

\* ------------------------------------------------------------------------
\* CythonODEsys.setup (notebook 40), run by the constructor
\* ------------------------------------------------------------------------
\* cython_sys = mk_rsys(CythonODEsys, ...): __init__ calls self.setup()
Construct ==
  /\ su_pc \in {"idle", "done", "IOError", "ImportError"}
  /\ Len(objs) < MaxObjs
  /\ \E sd \in Systems :
       objs' = Append(objs, [sys |-> sd, mod_name |-> 0, f_eval |-> Unbound, j_eval |-> Unbound,
                             wrote_pyx |-> FALSE, wrote_pyxbld |-> FALSE, imported |-> FALSE])
  /\ su_pc' = "setup"
  /\ mod' = NoMod
  /\ builds' = 0
  /\ ev' = NoEv
  /\ UNCHANGED <<molVars, fnVars, mkVars, trajVars, vodeVars, files, sys_modules>>

\* self.mod_name = 'ode_cython_%s' % uuid.uuid4().hex[:10]: ten hex digits
\* of a random UUID
SetupName ==
  /\ su_pc = "setup"
  /\ \E n \in 1..NameSpace : objs' = [objs EXCEPT ![Cur].mod_name = n]
  /\ su_pc' = "named"
  /\ UNCHANGED <<molVars, fnVars, mkVars, trajVars, vodeVars, files, sys_modules, mod, builds, ev>>

\* open('%s.pyx' % self.mod_name, 'wt').write(cython_template % ctx)
SetupWritePyx ==
  /\ su_pc = "named"
  /\ \E ok \in BOOLEAN :
       IF ok
       THEN /\ files' = WriteFile(files, <<objs[Cur].mod_name, "pyx">>, Rendered(objs[Cur].sys))
            /\ objs' = [objs EXCEPT ![Cur].wrote_pyx = TRUE]
            /\ su_pc' = "pyx"
       ELSE /\ su_pc' = "IOError"
            /\ UNCHANGED <<files, objs>>
  /\ UNCHANGED <<molVars, fnVars, mkVars, trajVars, vodeVars, sys_modules, mod, builds, ev>>

\* open('%s.pyxbld' % self.mod_name, 'wt').write(templates.pyxbld % ...)
SetupWritePyxbld ==
  /\ su_pc = "pyx"
  /\ \E ok \in BOOLEAN :
       IF ok
       THEN /\ files' = WriteFile(files, <<objs[Cur].mod_name, "pyxbld">>, << >>)
            /\ objs' = [objs EXCEPT ![Cur].wrote_pyxbld = TRUE]
            /\ su_pc' = "pyxbld"
       ELSE /\ su_pc' = "IOError"
            /\ UNCHANGED <<files, objs>>
  /\ UNCHANGED <<molVars, fnVars, mkVars, trajVars, vodeVars, sys_modules, mod, builds, ev>>

\* a failed build: __import__ raises, and nothing in setup catches it
AfterBuildErrorCaught == "imported"
AfterBuildError == "ImportError"

\* mod = __import__(self.mod_name): a module of that name already in
\* sys.modules is returned as it is; otherwise pyximport builds the .pyx
\* file of that name, which succeeds or raises
SetupImport ==
  /\ su_pc = "pyxbld"
  /\ LET n == objs[Cur].mod_name
     IN  IF n \in DOMAIN sys_modules
         THEN /\ mod' = sys_modules[n]
              /\ objs' = [objs EXCEPT ![Cur].imported = TRUE]
              /\ su_pc' = "imported"
              /\ UNCHANGED <<sys_modules, builds>>
         ELSE /\ builds' = builds + 1
              /\ \E ok \in BOOLEAN :
                   IF ok
                   THEN /\ mod' = Module(n, files[<<n, "pyx">>])
                        /\ sys_modules' = WriteFile(sys_modules, n, mod')
                        /\ objs' = [objs EXCEPT ![Cur].imported = TRUE]
                        /\ su_pc' = "imported"
                   ELSE /\ su_pc' = AfterBuildError
                        /\ UNCHANGED <<mod, sys_modules, objs>>
  /\ UNCHANGED <<molVars, fnVars, mkVars, trajVars, vodeVars, files, ev>>

\* self.f_eval = mod.f
SetupBindF ==
  /\ su_pc = "imported"
  /\ objs' = [objs EXCEPT ![Cur].f_eval = mod.f]
  /\ su_pc' = "f_bound"
  /\ UNCHANGED <<molVars, fnVars, mkVars, trajVars, vodeVars, files, sys_modules, mod, builds, ev>>

\* self.j_eval = mod.j
SetupBindJ ==
  /\ su_pc = "f_bound"
  /\ objs' = [objs EXCEPT ![Cur].j_eval = mod.j]
  /\ su_pc' = "done"
  /\ UNCHANGED <<molVars, fnVars, mkVars, trajVars, vodeVars, files, sys_modules, mod, builds, ev>>

\* the callable njit(sp.lambdify(*args, modules="numpy")) when it is called:
\* the cell that builds it is marked "This notebook doesn't work yet"; where
\* numba compiles the lambdified function it computes what lambdify computes
JitCall(works, direct) == IF works THEN [ok |-> TRUE, out |-> direct] ELSE [ok |-> FALSE, out |-> << >>]

\* f_eval(y, t, *params) and j_eval(y, t, *params) of the three backends for
\* one system and the same arguments
Evaluate ==
  /\ su_pc = "done"
  /\ ev = NoEv
  /\ \E i \in 1..Len(objs) :
       /\ objs[i].f_eval.compiled /\ objs[i].j_eval.compiled
       /\ LET o == objs[i].sys
          IN  \E y \in EvalYs(Size(o.y)), ps \in EvalPs(Len(o.p)), works \in BOOLEAN :
                ev' = [obj |-> i, y |-> y, params |-> ps,
                       direct_f |-> [ok |-> TRUE, out |-> DirectF(o, y, ps)],
                       direct_j |-> [ok |-> TRUE, out |-> DirectJ(o, y, ps)],
                       cython_f |-> CythonF(objs[i].f_eval, y, ps),
                       cython_j |-> CythonJ(objs[i].j_eval, y, ps),
                       jit_f |-> JitCall(works, DirectF(o, y, ps)),
                       jit_j |-> JitCall(works, DirectJ(o, y, ps))]
  /\ UNCHANGED <<molVars, fnVars, mkVars, trajVars, vodeVars, objs, su_pc, files, sys_modules, mod, builds>>

SetupLocals0 ==
  /\ objs = << >>
  /\ files = << >>
  /\ sys_modules = << >>
  /\ mod = NoMod
  /\ builds = 0
  /\ ev = NoEv

SetupStart == su_pc = "idle" /\ SetupLocals0
SetupOff == su_pc = "off" /\ SetupLocals0

NextSetup ==
  \/ Construct \/ SetupName \/ SetupWritePyx \/ SetupWritePyxbld \/ SetupImport
  \/ SetupBindF \/ SetupBindJ \/ Evaluate

\* ------------------------------------------------------------------------
\* MOLsys (notebook 60): method of lines, n_lines bins of ny species each
\* ------------------------------------------------------------------------
Max(a, b) == IF a >= b THEN a ELSE b
Min(a, b) == IF a <= b THEN a ELSE b

\* np.clip(x, lo, hi) = minimum(maximum(x, lo), hi); hi where lo > hi
Clip(x, lo, hi) == Min(Max(x, lo), hi)

\* a quotient num/den, kept exact
Frac(n, d) == [num |-> n, den |-> d]
MolUninit == [set |-> FALSE, v |-> Frac(0, 1)]

\* a[q] on a one-dimensional array: a negative index counts from the end, an
\* index outside -len..len-1 is an IndexError
InRange(a, q) == q >= -Size(a) /\ q < Size(a)
Item(a, q) == IF q >= 0 THEN a[q] ELSE a[Size(a) + q]

\* self.ny: the number of state symbols
Ny(o) == Size(o.y)

\* ('k', {'A': 1}, {'A': -1}): one species, for ny = 1
Sink == <<Rxn("k", <<<<"A", PyInt(1)>>>>, <<<<"A", PyInt(-1)>>>>)>>

MolSystems ==
  { MkRsys(Sink, <<"A">>), MkRsys(Decay, <<"A", "B">>), MkRsys(Robertson, <<"A", "B", "C">>) }

\* MOLsys.central_reference_bin
central_reference_bin(o, i) == Clip(i, 1, Ny(o) - 2)

\* MOLsys.second_derivatives_spatial(i, y, out): the values written to out,
\* or the IndexError of the first index outside y
second_derivatives_spatial(o, i, y, dxv) ==
  LET kb == central_reference_bin(o, i)
      ny == Ny(o)
      ok == \A j \in 0..(ny - 1) :
              /\ InRange(y, (kb - 1) * ny + j)
              /\ InRange(y, kb * ny + j)
              /\ InRange(y, (kb + 1) * ny + j)
  IN  IF ok
      THEN [err |-> FALSE,
            out |-> [j \in 0..(ny - 1) |->
                       LET left == Item(y, (kb - 1) * ny + j)
                           cent == Item(y, kb * ny + j)
                           rght == Item(y, (kb + 1) * ny + j)
                       IN  Frac(left - 2 * cent + rght, dxv * dxv)]]
      ELSE [err |-> TRUE, out |-> << >>]

\* the indices (k-1)*ny + j, k*ny + j, (k+1)*ny + j of bin i, j in range(ny)
StencilIndices(o, i) ==
  LET kb == central_reference_bin(o, i)
  IN  {(kb + d) * Ny(o) + j : d \in {-1, 0, 1}, j \in 0..(Ny(o) - 1)}

\* y[slc] for slc = slice(i*ny, (i+1)*ny)
Slc(o, i, y) == [j \in 0..(Ny(o) - 1) |-> y[i * Ny(o) + j]]

\* f_out[slc] *= self.D;  f_out[slc] += self.lambdified_f(*chain(y[slc], params))
BinValue(o, d2, Dv, react, j) ==
  Frac(d2[j].num * Dv[j] + react[<<j>>].v * d2[j].den, d2[j].den)

MolYs(n) ==
  { [q \in 0..(n - 1) |-> q * q * q],
    [q \in 0..(n - 1) |-> IF q % 2 = 0 THEN q ELSE 7],
    [q \in 0..(n - 1) |-> 1] }
MolDs(n) == { [j \in 0..(n - 1) |-> 1], [j \in 0..(n - 1) |-> j + 2] }

\* def f_eval(self, y, t, *params): f_out = np.empty(self.ny*self.n_lines)
MolCall ==
  /\ mol_pc = "idle"
  /\ f_out' = [q \in 0..(Ny(mol_sys) * n_lines - 1) |-> MolUninit]
  /\ mol_i' = 0
  /\ mol_pc' = "loop"
  /\ UNCHANGED <<mkVars, trajVars, vodeVars, setupVars, fnVars,
                 mol_sys, n_lines, dx, D, mol_y, mol_params, j_out, mol_acc>>

\* the body of `for i in range(self.n_lines)` for one i
MolBin ==
  /\ mol_pc = "loop"
  /\ mol_i < n_lines
  /\ LET ny    == Ny(mol_sys)
         d2    == second_derivatives_spatial(mol_sys, mol_i, mol_y, dx)
         react == DirectF(mol_sys, Slc(mol_sys, mol_i, mol_y), mol_params)
     IN  IF d2.err
         THEN /\ mol_pc' = "IndexError"
              /\ UNCHANGED <<f_out, mol_i>>
         ELSE /\ f_out' = [q \in DOMAIN f_out |->
                            IF q \div ny = mol_i
                            THEN Val(BinValue(mol_sys, d2.out, D, react, q % ny))
                            ELSE f_out[q]]
              /\ mol_i' = mol_i + 1
              /\ UNCHANGED mol_pc
  /\ mol_acc' = mol_acc \cup StencilIndices(mol_sys, mol_i)
  /\ UNCHANGED <<mkVars, trajVars, vodeVars, setupVars, fnVars,
                 mol_sys, n_lines, dx, D, mol_y, mol_params, j_out>>

\* return f_out
MolReturn ==
  /\ mol_pc = "loop"
  /\ mol_i = n_lines
  /\ mol_pc' = "returned"
  /\ UNCHANGED <<mkVars, trajVars, vodeVars, setupVars, fnVars,
                 mol_sys, n_lines, dx, D, mol_y, mol_params, mol_i, f_out,
                 j_out, mol_acc>>

\* a + b for two quotients
FracAdd(a, b) == Frac(a.num * b.den + b.num * a.den, a.den * b.den)

\* j_out[r, c] += w: the new value of the entry
AccumOverwrites(old, w) == w
Accum(old, w) == FracAdd(old, w)

\* j_out[i*ny + j, ...] += D[j]/dx**2, -2*D[j]/dx**2, D[j]/dx**2 for
\* j = from .. ny - 1, one statement after the other
RECURSIVE AddWeights(_, _, _, _, _)
AddWeights(mat, o, i, kb, from) ==
  IF from >= Ny(o) THEN mat
  ELSE LET ny  == Ny(o)
           n   == ny * n_lines
           row == i * ny + from
           col(q) == IF q >= 0 THEN q ELSE n + q
           m1  == [mat EXCEPT ![<<row, col((kb - 1) * ny + from)>>] = Accum(@, Frac(D[from], dx * dx))]
           m2  == [m1 EXCEPT ![<<row, col(kb * ny + from)>>] = Accum(@, Frac(-2 * D[from], dx * dx))]
           m3  == [m2 EXCEPT ![<<row, col((kb + 1) * ny + from)>>] = Accum(@, Frac(D[from], dx * dx))]
       IN  AddWeights(m3, o, i, kb, from + 1)

\* def j_eval(self, y, t, *params): j_out = np.zeros((ny*n_lines, ny*n_lines))
MolJCall ==
  /\ mol_pc = "idle"
  /\ j_out' = [rc \in (0..(Ny(mol_sys) * n_lines - 1)) \X (0..(Ny(mol_sys) * n_lines - 1)) |-> Frac(0, 1)]
  /\ mol_i' = 0
  /\ mol_pc' = "j loop"
  /\ UNCHANGED <<mkVars, trajVars, vodeVars, setupVars, fnVars,
                 mol_sys, n_lines, dx, D, mol_y, mol_params, f_out, mol_acc>>

\* the body of `for i in range(self.n_lines)` of j_eval for one i: the
\* diagonal block is assigned, then the diffusion weights are added
MolJBin ==
  /\ mol_pc = "j loop"
  /\ mol_i < n_lines
  /\ LET ny    == Ny(mol_sys)
         n     == ny * n_lines
         block == DirectJ(mol_sys, Slc(mol_sys, mol_i, mol_y), mol_params)
         kb    == central_reference_bin(mol_sys, mol_i)
         set   == [rc \in DOMAIN j_out |->
                     IF rc[1] \div ny = mol_i /\ rc[2] \div ny = mol_i
                     THEN Frac(block[<<rc[1] % ny, rc[2] % ny>>].v, 1)
                     ELSE j_out[rc]]
     IN  IF \A q \in StencilIndices(mol_sys, mol_i) : q >= -n /\ q < n
         THEN /\ j_out' = AddWeights(set, mol_sys, mol_i, kb, 0)
              /\ mol_i' = mol_i + 1
              /\ UNCHANGED mol_pc
         ELSE /\ mol_pc' = "IndexError"
              /\ UNCHANGED <<j_out, mol_i>>
  /\ mol_acc' = mol_acc \cup StencilIndices(mol_sys, mol_i)
  /\ UNCHANGED <<mkVars, trajVars, vodeVars, setupVars, fnVars,
                 mol_sys, n_lines, dx, D, mol_y, mol_params, f_out>>

\* return j_out
MolJReturn ==
  /\ mol_pc = "j loop"
  /\ mol_i = n_lines
  /\ mol_pc' = "j returned"
  /\ UNCHANGED <<mkVars, trajVars, vodeVars, setupVars, fnVars,
                 mol_sys, n_lines, dx, D, mol_y, mol_params, mol_i, f_out,
                 j_out, mol_acc>>

MolLocals0 == mol_i = 0 /\ f_out = << >> /\ j_out = << >> /\ mol_acc = {}

\* molsys = mk_rsys(MOLsys, reactions, names, params, x_end=..., n_lines=...,
\* D=D); MOLsys.__init__ sets self.dx = self.x_end / self.n_lines
MolStart ==
  /\ mol_pc = "idle"
  /\ mol_sys \in MolSystems
  /\ n_lines \in MinLines..MaxLines
  /\ \E x_end \in {n_lines, 2 * n_lines} : dx = x_end \div n_lines
  /\ D \in MolDs(Ny(mol_sys))
  /\ mol_y \in MolYs(Ny(mol_sys) * n_lines)
  /\ mol_params = [q \in 1..Len(mol_sys.p) |-> q]
  /\ MolLocals0

MolOff ==
  /\ mol_pc = "off"
  /\ mol_sys = MkRsys(Decay, <<"A", "B">>)
  /\ n_lines = 0 /\ dx = 0 /\ D = << >> /\ mol_y = << >> /\ mol_params = << >>
  /\ MolLocals0

\* A two- or three-dimensional array: its shape and its elements by index
\* tuple (0-based).
Array(shape, at) == [shape |-> shape, at |-> at]

\* np.vstack(y0) for a list of arrays of one length: row j is y0[j]
Vstack(ys) ==
  Array(<<Size(ys), Size(ys[0])>>,
        [jq \in (0..(Size(ys) - 1)) \X (0..(Size(ys[0]) - 1)) |-> ys[jq[1]][jq[2]]])

\* a.T of a two-dimensional array
NotTransposed(a) == a
Transposed(a) ==
  Array(<<a.shape[2], a.shape[1]>>,
        [qj \in (0..(a.shape[2] - 1)) \X (0..(a.shape[1] - 1)) |-> a.at[<<qj[2], qj[1]>>]])

\* np.array(a.flat): the elements in row-major order
Flat(a) ==
  [q \in 0..(a.shape[1] * a.shape[2] - 1) |-> a.at[<<q \div a.shape[2], q % a.shape[2]>>]]

\* yout.reshape((n0, n1, n2)) of a two-dimensional array (rows of one length
\* as a 0-based array of 0-based arrays): the same elements in row-major order
Reshape(rows, n0, n1, n2) ==
  LET width   == Size(rows[0])
      flat(q) == rows[q \div width][q % width]
  IN  Array(<<n0, n1, n2>>,
            [tij \in (0..(n0 - 1)) \X (0..(n1 - 1)) \X (0..(n2 - 1)) |->
               flat(tij[1] * n1 * n2 + tij[2] * n2 + tij[3])])

\* a.transpose((0, 2, 1)) of a three-dimensional array
Transpose021(a) ==
  Array(<<a.shape[1], a.shape[3], a.shape[2]>>,
        [tji \in (0..(a.shape[1] - 1)) \X (0..(a.shape[3] - 1)) \X (0..(a.shape[2] - 1)) |->
           a.at[<<tji[1], tji[3], tji[2]>>]])

\* ODEsys.integrate(tout, y0, params): a state matrix (time x state) whose
\* first row is the initial state; the other rows are the solver's
SuperIntegrate(ts, ys) ==
  { [t \in 0..(Size(ts) - 1) |-> [q \in DOMAIN ys |-> IF t = 0 THEN ys[q] ELSE ys[q] + d * t]]
    : d \in {0, 1} }

\* y0 as ny arrays of n_lines values each
MolY0s(ny, n) ==
  { [j \in 0..(ny - 1) |-> [i \in 0..(n - 1) |-> 10 * j + i]],
    [j \in 0..(ny - 1) |-> [i \in 0..(n - 1) |-> i * i + j]] }

\* def integrate(self, tout, y0, params=(), **kwargs):
\*     y0 = np.array(np.vstack(y0).T.flat)
MolIntegrateCall ==
  /\ mol_pc = "idle"
  /\ \E to \in TOuts, ys \in MolY0s(Ny(mol_sys), n_lines) :
       /\ fn_in' = [tout |-> to, y0 |-> ys]
       /\ fn_loc' = [y0 |-> Flat(Transposed(Vstack(ys))), yout |-> << >>]
  /\ mol_pc' = "integrate"
  /\ UNCHANGED <<mkVars, trajVars, vodeVars, setupVars, fn_pc, fn_out,
                 mol_sys, n_lines, dx, D, mol_y, mol_params, mol_i, f_out,
                 j_out, mol_acc>>

\* yout, info = super(MOLsys, self).integrate(tout, y0, params, **kwargs)
MolSuperIntegrate ==
  /\ mol_pc = "integrate"
  /\ \E rows \in SuperIntegrate(fn_in.tout, fn_loc.y0) :
       fn_loc' = [fn_loc EXCEPT !.yout = rows]
  /\ mol_pc' = "integrated"
  /\ UNCHANGED <<mkVars, trajVars, vodeVars, setupVars, fn_pc, fn_in, fn_out,
                 mol_sys, n_lines, dx, D, mol_y, mol_params, mol_i, f_out,
                 j_out, mol_acc>>

\* return yout.reshape((tout.size, self.n_lines, self.ny)).transpose((0, 2, 1)), info
MolIntegrateReturn ==
  /\ mol_pc = "integrated"
  /\ fn_out' = Transpose021(Reshape(fn_loc.yout, Size(fn_in.tout), n_lines, Ny(mol_sys)))
  /\ mol_pc' = "integrate returned"
  /\ UNCHANGED <<mkVars, trajVars, vodeVars, setupVars, fn_pc, fn_in, fn_loc,
                 mol_sys, n_lines, dx, D, mol_y, mol_params, mol_i, f_out,
                 j_out, mol_acc>>

NextMol ==
  \/ MolCall \/ MolBin \/ MolReturn
  \/ MolJCall \/ MolJBin \/ MolJReturn
  \/ MolIntegrateCall \/ MolSuperIntegrate \/ MolIntegrateReturn

FnOff == fn_pc = "off" /\ fn_in = << >> /\ fn_loc = << >> /\ fn_out = << >>

\* ------------------------------------------------------------------------
\* rhs (notebook 25): the hand-written callback of the NO / Br2 / NOBr system
\* ------------------------------------------------------------------------
rhsSwapped(y, t, kf, kb) ==
  LET rf == kf * Pow(y[0], 2) * y[1]
      rb == kb * Pow(y[2], 2)
  IN  [i \in 0..2 |-> CASE i = 0 -> 2 * (rf - rb) [] i = 1 -> rb - rf [] OTHER -> 2 * (rf - rb)]

rhs(y, t, kf, kb) ==
  LET rf == kf * Pow(y[0], 2) * y[1]
      rb == kb * Pow(y[2], 2)
  IN  [i \in 0..2 |-> CASE i = 0 -> 2 * (rb - rf) [] i = 1 -> rb - rf [] OTHER -> 2 * (rf - rb)]

RhsInputs ==
  [y : [0..2 -> (-1)..MaxVal], t : 0..1, kf : 0..MaxVal, kb : 0..MaxVal]

\* odeint calling rhs(y, t, kf, kb)
RhsCall ==
  /\ fn_pc = "rhs"
  /\ fn_out' = rhs(fn_in.y, fn_in.t, fn_in.kf, fn_in.kb)
  /\ fn_pc' = "rhs returned"
  /\ UNCHANGED <<mkVars, trajVars, vodeVars, setupVars, molVars, fn_in, fn_loc>>

RhsStart == fn_pc = "rhs" /\ fn_in \in RhsInputs /\ fn_loc = << >> /\ fn_out = << >>

\* ------------------------------------------------------------------------
\* First-order diff (the "Writing Cython" notebook): py_diff, cy_diff_naive,
\* cy_diff, cy_diff2 and np_diff.  An array is its elements (0-based), its
\* dtype and whether it is C-contiguous.
\* ------------------------------------------------------------------------
DiffFunctions == {"py_diff", "cy_diff_naive", "cy_diff", "cy_diff2", "np_diff"}
LoopDiffs == {"py_diff", "cy_diff_naive", "cy_diff", "cy_diff2"}

\* the functions whose argument is declared double[::1] x
TypedDiffs == {"cy_diff", "cy_diff2"}

\* double[::1] x: the buffer has to be C-contiguous float64, else the call
\* raises ValueError before the body runs
Accepts(fname, a) ==
  fname \in TypedDiffs => (a.dtype = "float64" /\ a.contiguous)

\* np.zeros(m)
Zeros(m) == [i \in 0..(m - 1) |-> 0]

\* y[i] = x[i+1] - x[i]: the arrays x and y after the statement
StoreInPlace(x, y, i) ==
  [x |-> [x EXCEPT ![i] = x[i + 1] - x[i]], y |-> [y EXCEPT ![i] = x[i + 1] - x[i]]]
Store(x, y, i) == [x |-> x, y |-> [y EXCEPT ![i] = x[i + 1] - x[i]]]

\* np.diff(x): x[1:] - x[:-1]
NpDiff(x) == [i \in 0..(Size(x) - 2) |-> x[i + 1] - x[i]]

DiffArrays ==
  [elems : UNION {[0..(n - 1) -> 0..MaxVal] : n \in 1..MaxLen},
   dtype : {"float64", "int64"},
   contiguous : BOOLEAN]

\* def ..._diff(x): n = x.size; y = np.zeros(n-1)
DiffEnter ==
  /\ fn_pc = "call"
  /\ fn_in.fname \in LoopDiffs
  /\ IF Accepts(fn_in.fname, fn_in.x)
     THEN /\ fn_loc' = [fn_loc EXCEPT !.n = Size(fn_in.x.elems),
                                      !.y = Zeros(Size(fn_in.x.elems) - 1),
                                      !.i = 0]
          /\ fn_pc' = "loop"
     ELSE /\ fn_pc' = "ValueError"
          /\ UNCHANGED fn_loc
  /\ UNCHANGED <<mkVars, trajVars, vodeVars, setupVars, molVars, fn_in, fn_out>>

\* for i in range(n-1): y[i] = x[i+1] - x[i]
DiffStep ==
  /\ fn_pc = "loop"
  /\ fn_loc.i < fn_loc.n - 1
  /\ LET st == Store(fn_in.x.elems, fn_loc.y, fn_loc.i)
     IN  /\ fn_in' = [fn_in EXCEPT !.x.elems = st.x]
         /\ fn_loc' = [fn_loc EXCEPT !.y = st.y, !.i = @ + 1,
                                     !.reads = @ \cup {fn_loc.i, fn_loc.i + 1}]
  /\ UNCHANGED <<mkVars, trajVars, vodeVars, setupVars, molVars, fn_pc, fn_out>>

\* return y
DiffReturn ==
  /\ fn_pc = "loop"
  /\ fn_loc.i >= fn_loc.n - 1
  /\ fn_out' = fn_loc.y
  /\ fn_pc' = "returned"
  /\ UNCHANGED <<mkVars, trajVars, vodeVars, setupVars, molVars, fn_in, fn_loc>>

\* def np_diff(x): return np.diff(x)
np_diff ==
  /\ fn_pc = "call"
  /\ fn_in.fname = "np_diff"
  /\ fn_out' = NpDiff(fn_in.x.elems)
  /\ fn_pc' = "returned"
  /\ UNCHANGED <<mkVars, trajVars, vodeVars, setupVars, molVars, fn_in, fn_loc>>

DiffStart ==
  /\ fn_pc = "call"
  /\ fn_in \in [fname : DiffFunctions, x : DiffArrays]
  /\ fn_loc = [n |-> 0, y |-> << >>, i |-> 0, reads |-> {}, x0 |-> fn_in.x]
  /\ fn_out = << >>

NextDiff == DiffEnter \/ DiffStep \/ DiffReturn \/ np_diff

\* ------------------------------------------------------------------------
\* MyCodePrinter._print_Pow (notebook 07).  Printed code is a sequence of
\* tokens; an exponent is a sympy Integer (den = 1), a Rational num/den in
\* lowest terms, or a Symbol.
\* ------------------------------------------------------------------------
Integer(n) == [kind |-> "Number", num |-> n, den |-> 1]
Rational(n, d) == [kind |-> "Number", num |-> n, den |-> d]
SymbolExp == [kind |-> "Symbol", num |-> 0, den |-> 1]
IsInteger(e) == e.kind = "Number" /\ e.den = 1

\* self._print(expr.base) for a Symbol and for the sum x + y
PowBases == {"x", "y", "x + y"}
PrintBase(b) == IF b = "x + y" THEN <<"x", " + ", "y">> ELSE <<b>>

\* self.parenthesize(expr.base, PREC)
Parenthesize(b) == IF b = "x + y" THEN <<"(">> \o PrintBase(b) \o <<")">> ELSE PrintBase(b)

\* a number as the C99 printer writes it
PrintNumber(e) ==
  IF e.den = 1 THEN <<ToString(e.num)>>
  ELSE <<ToString(e.num), ".0/", ToString(e.den), ".0">>

\* C99CodePrinter._print_Pow (sympy): 1.0/base, sqrt, cbrt or pow
SuperPrintPow(b, e) ==
  CASE e = Integer(-1)    -> <<"1.0", "/">> \o Parenthesize(b)
    [] e = Rational(1, 2) -> <<"sqrt", "(">> \o PrintBase(b) \o <<")">>
    [] e = Rational(1, 3) -> <<"cbrt", "(">> \o PrintBase(b) \o <<")">>
    [] OTHER -> <<"pow", "(">> \o PrintBase(b) \o <<", ">>
                  \o (IF e.kind = "Symbol" THEN <<"n">> ELSE PrintNumber(e)) \o <<")">>

\* '*'.join([self._print(expr.base) for i in range(expr.exp)])
RECURSIVE Join(_, _)
Join(b, n) == IF n <= 1 THEN PrintBase(b) ELSE PrintBase(b) \o <<"*">> \o Join(b, n - 1)

Printed(toks) == [err |-> None, code |-> toks]
PrintError(exc) == [err |-> exc, code |-> << >>]

\* expr.exp > 0 and expr.exp <= 4, with sympy numbers
InExpandRange(e) == e.num > 0 /\ e.num <= 4 * e.den

\* MyCodePrinter._print_Pow: the truth value of a relation with a Symbol is
\* a TypeError, and so is range() of a number that is not an Integer
_print_Pow(b, e) ==
  IF e.kind = "Symbol" THEN PrintError("TypeError")
  ELSE IF InExpandRange(e)
       THEN IF IsInteger(e) THEN Printed(Join(b, e.num)) ELSE PrintError("TypeError")
       ELSE Printed(SuperPrintPow(b, e))

PowExps ==
  {Integer(n) : n \in MinExp..MaxExp}
    \cup {Rational(n, 2) : n \in {m \in MinExp..MaxExp : m % 2 = 1}}
    \cup {Rational(n, 3) : n \in {m \in MinExp..MaxExp : m % 3 # 0}}
    \cup {SymbolExp}

\* my_printer.doprint(base**exp)
PrintPow ==
  /\ fn_pc = "doprint"
  /\ fn_out' = _print_Pow(fn_in.base, fn_in.exp)
  /\ fn_pc' = IF fn_out'.err = None THEN "printed" ELSE fn_out'.err
  /\ UNCHANGED <<mkVars, trajVars, vodeVars, setupVars, molVars, fn_in, fn_loc>>

PowStart ==
  /\ fn_pc = "doprint"
  /\ fn_in \in [base : PowBases, exp : PowExps]
  /\ fn_loc = << >>
  /\ fn_out = Printed(<< >>)

\* ------------------------------------------------------------------------
\* CMatrixPrinter._print_ImmutableDenseMatrix (notebook 07).  An expression
\* is a Symbol or a sum / product of two expressions; a matrix is the
\* sequence of its elements.
\* ------------------------------------------------------------------------
Leaf(name) == [op |-> "sym", name |-> name, args |-> << >>]
Node(op, l, rt) == [op |-> op, name |-> "", args |-> <<l, rt>>]
IsLeaf(e) == e.op = "sym"

\* the expressions in e, e included (two levels of arguments)
SubExprs(e) ==
  {e} \cup (IF IsLeaf(e) THEN {}
            ELSE UNION { {a} \cup (IF IsLeaf(a) THEN {} ELSE {a.args[1], a.args[2]})
                         : a \in {e.args[1], e.args[2]} })
AllSubExprs(M) == UNION {SubExprs(M[q]) : q \in 1..Len(M)}

\* sm.cse, first pass: an expression is visited as an element of the matrix
\* and as an argument of each distinct expression; one that is visited again
\* is eliminated (and its arguments are not visited again)
Visits(e, M) ==
  Cardinality({q \in 1..Len(M) : M[q] = e})
    + Cardinality({pq \in {a \in AllSubExprs(M) : ~IsLeaf(a)} \X {1, 2} : pq[1].args[pq[2]] = e})
ToEliminate(M) == {e \in AllSubExprs(M) : ~IsLeaf(e) /\ Visits(e, M) >= 2}

\* sm.cse, second pass: rebuild e, replacing the eliminated expressions by
\* x0, x1, ... in the order they are met
RECURSIVE Rebuild(_, _, _)
Rebuild(e, elim, subs) ==
  IF IsLeaf(e) THEN [e |-> e, subs |-> subs]
  ELSE IF \E q \in 1..Len(subs) : subs[q].orig = e
       THEN [e |-> (CHOOSE sb \in Range(subs) : sb.orig = e).var, subs |-> subs]
       ELSE LET l  == Rebuild(e.args[1], elim, subs)
                rt == Rebuild(e.args[2], elim, l.subs)
                ne == Node(e.op, l.e, rt.e)
                xk == Leaf("x" \o ToString(Len(rt.subs)))
            IN  IF e \in elim
                THEN [e |-> xk, subs |-> Append(rt.subs, [var |-> xk, orig |-> e, sub_expr |-> ne])]
                ELSE [e |-> ne, subs |-> rt.subs]

RECURSIVE RebuildAll(_, _, _, _, _)
RebuildAll(M, q, elim, subs, done) ==
  IF q > Len(M) THEN [sub_exprs |-> subs, simplified |-> done]
  ELSE LET rb == Rebuild(M[q], elim, subs)
       IN  RebuildAll(M, q + 1, elim, rb.subs, Append(done, rb.e))

\* sub_exprs, simplified = sm.cse(expr)
cse(M) == RebuildAll(M, 1, ToEliminate(M), << >>, << >>)

\* self._print of an expression: a sum inside a product is parenthesized
RECURSIVE PrintExpr(_)
PrintExpr(e) ==
  IF IsLeaf(e) THEN <<e.name>>
  ELSE LET arg(a) == IF e.op = "*" /\ a.op = "+"
                     THEN <<"(">> \o PrintExpr(a) \o <<")">> ELSE PrintExpr(a)
       IN  arg(e.args[1]) \o <<e.op>> \o arg(e.args[2])

\* self._print(Assignment(lhs, rhs)) for a scalar
PrintAssignment(lhs, e) == <<lhs, " = ">> \o PrintExpr(e) \o <<";">>

\* self._print(Assignment(M, matrix)): one assignment per element
PrintMatrixAssignment(M) ==
  [q \in 1..Len(M) |-> PrintAssignment("M[" \o ToString(q - 1) \o "]", M[q])]

\* the matrix whose elements the last statement of the method assigns
Assigned(expr, simplified) == expr

\* CMatrixPrinter._print_ImmutableDenseMatrix: the lines of the result
_print_ImmutableDenseMatrix(expr) ==
  LET res   == cse(expr)
      lines == [q \in 1..Len(res.sub_exprs) |->
                  <<"double ">> \o PrintAssignment(res.sub_exprs[q].var.name, res.sub_exprs[q].sub_expr)]
  IN  lines \o PrintMatrixAssignment(Assigned(expr, res.simplified))

La == Leaf("a")
Lb == Leaf("b")
Lc == Leaf("c")
CseElements ==
  { La, Node("*", La, Lb), Node("+", Lb, Lc),
    Node("+", Node("*", La, Lb), Lc), Node("*", La, Node("+", Lb, Lc)),
    Node("*", Node("+", Lb, Lc), Node("+", La, Lc)) }
CseMatrices == UNION {[1..n -> CseElements] : n \in 1..MaxElems}

\* print(p.doprint(matrix))
PrintMatrix ==
  /\ fn_pc = "doprint matrix"
  /\ fn_out' = _print_ImmutableDenseMatrix(fn_in)
  /\ fn_pc' = "printed matrix"
  /\ UNCHANGED <<mkVars, trajVars, vodeVars, setupVars, molVars, fn_in, fn_loc>>

CseStart ==
  /\ fn_pc = "doprint matrix"
  /\ fn_in \in CseMatrices
  /\ fn_loc = << >>
  /\ fn_out = << >>

NextVode ==
  \/ VodeCall \/ VodeIntegrate \/ SolverCallsF \/ SolverCallsJ \/ SolverReturns
  \/ VodeAssertStore \/ VodeReturn

InitMk == MkStart /\ VodeOff /\ SetupOff /\ MolOff /\ FnOff
InitVode == MkOff /\ VodeStart /\ SetupOff /\ MolOff /\ FnOff
InitSetup == MkOff /\ VodeOff /\ SetupStart /\ MolOff /\ FnOff
InitMol == MkOff /\ VodeOff /\ SetupOff /\ MolStart /\ FnOff

SpecMk == InitMk /\ [][NextMk]_vars
SpecVode == InitVode /\ [][NextVode]_vars
SpecSetup == InitSetup /\ [][NextSetup]_vars
SpecMol == InitMol /\ [][NextMol]_vars

Others == MkOff /\ VodeOff /\ SetupOff /\ MolOff
InitRhs == Others /\ RhsStart
SpecRhs == InitRhs /\ [][RhsCall]_vars
InitDiff == Others /\ DiffStart
SpecDiff == InitDiff /\ [][NextDiff]_vars
InitPow == Others /\ PowStart
SpecPow == InitPow /\ [][PrintPow]_vars
InitCse == Others /\ CseStart
SpecCse == InitCse /\ [][PrintMatrix]_vars

\* ========================================================================
\* Properties
\* ========================================================================
ABC == <<"A", "B", "C">>

\* the law of mass action of notebook 32, written out from the reaction list
RExp(rx, l) ==
  IF l \in Keys(rx.r_stoich)
  THEN rx.r_stoich[CHOOSE i \in 1..Len(rx.r_stoich) : rx.r_stoich[i][1] = l][2].v
  ELSE 0
NetCoef(rx, s) ==
  IF s \in Keys(rx.net_stoich)
  THEN rx.net_stoich[CHOOSE i \in 1..Len(rx.net_stoich) : rx.net_stoich[i][1] = s][2].v
  ELSE 0
RateMono(rx) == Mono(rx.coeff, [l \in AllSpecies |-> RExp(rx, l)])

RECURSIVE MassAction(_, _, _)
MassAction(s, rxl, j) ==
  IF j = 0 THEN ZeroPoly
  ELSE PolyAdd(Term(NetCoef(rxl[j], s), RateMono(rxl[j])), MassAction(s, rxl, j - 1))

BadKey(rx, nms) ==
  \/ \E i \in 1..Len(rx.r_stoich) : rx.r_stoich[i][1] \notin Range(nms)
  \/ \E i \in 1..Len(rx.net_stoich) : rx.net_stoich[i][1] \notin Range(nms)
BadMult(rx) ==
  \/ \E i \in 1..Len(rx.r_stoich) : ~IsNumber(rx.r_stoich[i][2])
  \/ \E i \in 1..Len(rx.net_stoich) : ~IsNumber(rx.net_stoich[i][2])
Malformed(rxl, nms) == \E j \in 1..Len(rxl) : BadKey(rxl[j], nms) \/ BadMult(rxl[j])

R1 == [m \in {Mono("k1", [One EXCEPT !["A"] = 1])} |-> 1]
R2 == [m \in {Mono("k2", [One EXCEPT !["B"] = 1, !["C"] = 1])} |-> 1]
R3 == [m \in {Mono("k3", [One EXCEPT !["B"] = 2])} |-> 1]

\* C1: for reactions that name only species of names, mk_exprs_symbs returns
\* one derivative per species, in the order of names, and the derivative of
\* species s is the sum over the reactions j of
\* net_stoich_j[s] * k_j * prod_l c_l ** r_stoich_j[l]; for Robertson's
\* reactions that is r2 - r1, r1 - r2 - r3, r3.
C1_MassAction ==
  /\ ~Malformed(rxns, names) => mk_pc # "raised"
  /\ mk_pc = "done" =>
       /\ Len(mk_ret.exprs) = Len(names)
       /\ \A i \in 1..Len(names) : mk_ret.exprs[i] = MassAction(names[i], rxns, Len(rxns))
       /\ (rxns = Robertson /\ names = ABC) =>
            mk_ret.exprs = << PolyAdd(R2, PolyScale(-1, R1)),
                              PolyAdd(R1, PolyAdd(PolyScale(-1, R2), PolyScale(-1, R3))),
                              R3 >>

C1_Witness == mk_pc = "done" /\ rxns = Robertson /\ names = ABC

RECURSIVE PolySum(_, _)
PolySum(es, n) == IF n = 0 THEN ZeroPoly ELSE PolyAdd(es[n], PolySum(es, n - 1))

RECURSIVE SeqSum(_, _)
SeqSum(v, n) == IF n = 0 THEN 0 ELSE v[n] + SeqSum(v, n - 1)

RECURSIVE NetSum(_, _)
NetSum(ns, n) == IF n = 0 THEN 0 ELSE ns[n][2].v + NetSum(ns, n - 1)

Closed(rxl) == \A j \in 1..Len(rxl) : NetSum(rxl[j].net_stoich, Len(rxl[j].net_stoich)) = 0

\* C4: for a closed network (every reaction's net stoichiometric changes sum
\* to zero) the returned derivatives sum to the zero expression, and every
\* row of a trajectory stepped from them has the same sum as y0.
C4_Conservation ==
  (mk_pc = "done" /\ Closed(rxns)) =>
     /\ PolySum(mk_ret.exprs, Len(mk_ret.exprs)) = ZeroPoly
     /\ \A i \in 1..Len(yout) : SeqSum(yout[i], Len(yout[i])) = SeqSum(y0, Len(y0))

C4_Witness ==
  /\ rxns = Robertson /\ names = ABC /\ mk_pc = "done"
  /\ Len(yout) = MaxTout
  /\ yout[MaxTout] # y0

SymbolicOps == {"c[rk]**p", "net_mult*r"}
DictLookups == {"c[rk]", "f[net_key]"}

\* C5 as stated: a malformed reaction list never returns, and what is raised
\* comes from the symbolic operations.
C5_Claimed ==
  Malformed(rxns, names) =>
     /\ mk_pc # "done"
     /\ mk_pc = "raised" => mk_err.at \in SymbolicOps

\* C5 amended: mk_exprs_symbs does not validate its input: the reactions
\* before the first malformed one are processed; there it raises and never
\* returns: a KeyError from its own dictionary lookups c[rk] / f[net_key] for
\* a key that is not in names, a TypeError from the symbolic ** or * for a
\* multiplicity that is not a number.
C5_Amended ==
  Malformed(rxns, names) =>
     /\ mk_pc # "done"
     /\ mk_pc = "loop" => ri <= Len(rxns)
     /\ mk_pc = "raised" =>
          /\ \A j \in 1..(ri - 1) : ~BadKey(rxns[j], names) /\ ~BadMult(rxns[j])
          /\ Len(k) = ri
          /\ \/ mk_err.exc = "KeyError" /\ mk_err.at \in DictLookups /\ BadKey(rxns[ri], names)
             \/ mk_err.exc = "TypeError" /\ mk_err.at \in SymbolicOps /\ BadMult(rxns[ri])

C5_Witness == mk_pc = "raised" /\ mk_err.exc = "KeyError" /\ ri > 1

\* C2: when the solver reports the step to tout[idx] as unsuccessful,
\* integrate_vode fails there with the assertion: nothing is returned (no
\* trajectory, no diagnostics) and no solver step for a later output time is
\* taken; a step is begun, or the result returned, only while every step so
\* far succeeded.
C2_AssertOnFailure ==
  /\ vo_pc = "AssertionError" =>
       /\ ~r_success
       /\ vo_ret = NoVodeRet
       /\ Len(integrated) = idx
       /\ integrated[idx].t = tout[idx]
  /\ vo_pc \in {"loop", "solving", "returned"} => r_success
  /\ (vo_pc = "assert" /\ ~r_success) => vo_ret = NoVodeRet

C2_Witness == vo_pc = "AssertionError" /\ idx = 2 /\ Size(tout) = 3

\* C8: the diagnostics count the callback invocations of this call exactly:
\* num_rhs is the number of f_eval invocations and num_dls_jac_evals the
\* number of j_eval invocations made during the call, both starting from 0
\* on every call.
C8_Counts ==
  /\ vo_pc \notin {"off", "idle"} => f_ncall = f_eval_calls /\ j_ncall = j_eval_calls
  /\ (vo_pc = "loop" /\ idx = 1) => f_ncall = 0 /\ j_ncall = 0
  /\ vo_pc = "returned" =>
       /\ vo_ret.info.num_rhs = f_eval_calls
       /\ vo_ret.info.num_dls_jac_evals = j_eval_calls

C8_Witness ==
  /\ vo_pc = "returned" /\ call_no = 2
  /\ vo_ret.info.num_rhs = 2 /\ vo_ret.info.num_dls_jac_evals = 1

\* C9: on success the returned matrix has len(tout) rows of len(y0) columns,
\* row 0 is y0 (at every point of the call, also after the solver steps) and
\* row idx is the solver state right after integrating to tout[idx]; the
\* solver is advanced through tout[1], tout[2], ... in order, one integrate
\* call per output time, len(tout) - 1 calls in total.
C9_Trajectory ==
  /\ vo_pc \notin {"off", "idle"} => vo_yout[0] = vo_y0
  /\ vo_pc = "returned" =>
       /\ DOMAIN vo_ret.yout = 0..(Size(tout) - 1)
       /\ \A i \in DOMAIN vo_ret.yout : Len(vo_ret.yout[i]) = Len(vo_y0)
       /\ vo_ret.yout[0] = vo_y0
       /\ Len(integrated) = Size(tout) - 1
       /\ \A i \in 1..(Size(tout) - 1) :
            /\ integrated[i].t = tout[i]
            /\ vo_ret.yout[i] = integrated[i].y

C9_Witness ==
  /\ vo_pc = "returned" /\ Size(tout) = 3
  /\ vo_ret.yout[1] # vo_ret.yout[0] /\ vo_ret.yout[2] # vo_ret.yout[1]

\* ------------------------------------------------------------------------
\* CythonODEsys.setup and the backends
\* ------------------------------------------------------------------------
IsBound(ob) == ob.f_eval.compiled \/ ob.j_eval.compiled
SetupFailed == su_pc \in {"IOError", "ImportError"}

\* C6: a failed build or import ends setup with the error (no later step of
\* that setup runs and the object is left as it was), the build is attempted
\* once per setup at most, and once exactly when it failed; f_eval and j_eval
\* are compiled functions only after the .pyx and the .pyxbld file were
\* written and the import returned.
C6_BuildFailure ==
  /\ [](/\ builds <= 1
        /\ su_pc = "ImportError" =>
             /\ builds = 1
             /\ ~IsBound(objs[Cur])
             /\ ~objs[Cur].imported
        /\ su_pc \in {"imported", "f_bound", "done"} => objs[Cur].imported
        /\ \A i \in 1..Len(objs) :
             IsBound(objs[i]) =>
               objs[i].wrote_pyx /\ objs[i].wrote_pyxbld /\ objs[i].imported)
  /\ [][SetupFailed =>
          /\ su_pc' \in {su_pc, "setup"}
          /\ \A i \in 1..Len(objs) : objs'[i] = objs[i]]_vars

C6_Witness ==
  /\ su_pc = "ImportError" /\ builds = 1
  /\ Len(objs) = 2 /\ objs[1].f_eval.compiled /\ objs[1].j_eval.compiled
  /\ objs[2].wrote_pyx /\ objs[2].wrote_pyxbld /\ ~IsBound(objs[2])

\* C7 as claimed: two setups never use the same module name, so the files
\* and the module of a system are its own: the .pyx file under a system's
\* name holds that system's code, and a system is bound to functions
\* compiled from its own code.
C7_Claimed ==
  /\ \A i, j \in 1..Len(objs) :
       i < j /\ objs[j].mod_name # 0 => objs[i].mod_name # objs[j].mod_name
  /\ \A i \in 1..Len(objs) :
       /\ (objs[i].wrote_pyx /\ (i < Cur \/ su_pc # "IOError")) =>
             files[<<objs[i].mod_name, "pyx">>] = Rendered(objs[i].sys)
       /\ objs[i].f_eval.compiled => objs[i].f_eval.code = Rendered(objs[i].sys).f_exprs
       /\ objs[i].j_eval.compiled => objs[i].j_eval.code = Rendered(objs[i].sys).j_exprs

\* C3 as claimed: for the same (y, t, params) the direct, the Cython and the
\* JIT backend all return, and return the same vector from f_eval and the
\* same matrix from j_eval.
C3_Claimed ==
  ev # NoEv =>
    /\ ev.direct_f.ok /\ ev.cython_f.ok /\ ev.jit_f.ok
    /\ ev.direct_j.ok /\ ev.cython_j.ok /\ ev.jit_j.ok
    /\ ev.cython_f.out = ev.direct_f.out /\ ev.jit_f.out = ev.direct_f.out
    /\ ev.cython_j.out = ev.direct_j.out /\ ev.jit_j.out = ev.direct_j.out

\* C10 as claimed: what the plot cell draws and reports after odeint is the
\* trajectory of a successful integration.
C10_Claimed == nb_pc = "plotted" => shown.istate = 2

\* ------------------------------------------------------------------------
\* MOLsys.f_eval
\* ------------------------------------------------------------------------
\* the bin the stencil of bin i is centred on: i itself for an interior bin,
\* the nearest interior bin for the two boundary bins
CentreBin(i) == Clip(i, 1, n_lines - 2)

\* D[j] * (y[(c-1)*ny + j] - 2*y[c*ny + j] + y[(c+1)*ny + j]) / dx**2 for bin i
Stencil(i, j) ==
  LET ny == Ny(mol_sys)
      cb == CentreBin(i)
  IN  Frac(D[j] * (mol_y[(cb - 1) * ny + j] - 2 * mol_y[cb * ny + j] + mol_y[(cb + 1) * ny + j]),
           dx * dx)

\* the reaction term of species j in bin i
Reaction(i, j) == DirectF(mol_sys, Slc(mol_sys, i, mol_y), mol_params)[<<j>>].v

\* C13 as claimed: f_eval returns, for every species j in every bin i, the
\* reaction term plus D[j] times the three-point second difference centred
\* on bin i (on the nearest interior bin for the boundary bins), for every ny.
C13_Claimed ==
  /\ mol_pc # "IndexError"
  /\ mol_pc = "returned" =>
       \A i \in 0..(n_lines - 1), j \in 0..(Ny(mol_sys) - 1) :
         f_out[i * Ny(mol_sys) + j] =
           Val(Frac(Stencil(i, j).num + Reaction(i, j) * dx * dx, dx * dx))

\* ------------------------------------------------------------------------
\* mk_exprs_symbs: inputs and the other results
\* ------------------------------------------------------------------------
\* C14: at every point of the call and after it (returned or raised) the
\* reaction list with every reaction's two mappings and the name list equal
\* what the caller passed, and a second call on these inputs returns what the
\* first returned.
C14_InputsUnchanged ==
  /\ rxns = rxns0
  /\ names = names0
  /\ mk_pc = "done" => mk_exprs_symbs(rxns, names) = mk_ret

C14_Witness ==
  /\ mk_pc = "done" /\ rxns0 = Robertson /\ names0 = ABC
  /\ rxns = Robertson /\ mk_ret.exprs[1] # ZeroPoly

\* C15: the second result is the state symbols, one per name in the order of
\* names; the third has one entry per reaction, in reaction order, entry j
\* being the coefficient of reaction j, also when coefficients repeat.
C15_SymbsAndK ==
  mk_pc = "done" =>
    /\ mk_ret.symbs = names0
    /\ Len(mk_ret.k) = Len(rxns0)
    /\ \A j \in 1..Len(rxns0) : mk_ret.k[j] = rxns0[j].coeff

C15_Witness ==
  /\ mk_pc = "done" /\ names0 = <<"B", "A">>
  /\ Len(rxns0) = 3 /\ rxns0[1].coeff = rxns0[3].coeff /\ rxns0[1] # rxns0[3]
  /\ Len(mk_ret.k) = 3

\* ------------------------------------------------------------------------
\* rhs of the NO / Br2 / NOBr system
\* ------------------------------------------------------------------------
\* S (net stoichiometry, species x reaction) and R (reactant multiplicities,
\* reaction x species) as the notebook gives them
SMatrix == << <<-2, 2>>, <<-1, 1>>, <<2, -2>> >>
RMatrix == << <<2, 1, 0>>, <<0, 0, 2>> >>

\* r_j = k_j * prod_l c_l ** R[j][l]
RateNO(j, y, kf, kb) ==
  (IF j = 1 THEN kf ELSE kb)
    * Pow(y[0], RMatrix[j][1]) * Pow(y[1], RMatrix[j][2]) * Pow(y[2], RMatrix[j][3])

\* dc_i/dt = sum_j S[i][j] * r_j
LawOfMassAction(i, y, kf, kb) ==
  SMatrix[i + 1][1] * RateNO(1, y, kf, kb) + SMatrix[i + 1][2] * RateNO(2, y, kf, kb)

\* C16: rhs(y, t, kf, kb) is the law of mass action for S and R, which is
\* [2*(rb - rf), rb - rf, 2*(rf - rb)] with rf = kf*y[0]**2*y[1] and
\* rb = kb*y[2]**2; the value is the same for every t.
C16_Rhs ==
  fn_pc = "rhs returned" =>
    LET y  == fn_in.y
        rf == fn_in.kf * y[0] * y[0] * y[1]
        rb == fn_in.kb * y[2] * y[2]
    IN  /\ DOMAIN fn_out = 0..2
        /\ \A i \in 0..2 : fn_out[i] = LawOfMassAction(i, y, fn_in.kf, fn_in.kb)
        /\ fn_out[0] = 2 * (rb - rf) /\ fn_out[1] = rb - rf /\ fn_out[2] = 2 * (rf - rb)
        /\ \A t2 \in 0..1 : rhs(y, t2, fn_in.kf, fn_in.kb) = fn_out

C16_Witness ==
  /\ fn_pc = "rhs returned"
  /\ fn_in.y = [i \in 0..2 |-> IF i = 0 THEN 2 ELSE 1]
  /\ fn_in.kf = 1 /\ fn_in.kb = 2 /\ fn_in.t = 1
  /\ fn_out[0] = -4 /\ fn_out[1] = -2 /\ fn_out[2] = 4

\* ------------------------------------------------------------------------
\* First-order diff
\* ------------------------------------------------------------------------
\* the result the five functions are to return for the array passed
IsDiffOf(y, x) ==
  /\ DOMAIN y = 0..(Size(x) - 2)
  /\ \A i \in 0..(Size(x) - 2) : y[i] = x[i + 1] - x[i]

\* C17 as claimed: for every array x of length n >= 1 each of the five
\* functions returns the n - 1 differences and leaves x as it was.
C17_Claimed ==
  /\ fn_pc # "ValueError"
  /\ fn_in.x = fn_loc.x0
  /\ fn_pc = "returned" => IsDiffOf(fn_out, fn_loc.x0.elems)

\* C17 as amended: py_diff, cy_diff_naive and np_diff do so for every array;
\* cy_diff and cy_diff2 do so for every C-contiguous float64 array and raise
\* ValueError, returning nothing, for any other; no function modifies x, and
\* every element read is inside x.
C17_Amended ==
  /\ fn_in.x = fn_loc.x0
  /\ fn_pc = "returned" => IsDiffOf(fn_out, fn_loc.x0.elems)
  /\ fn_pc = "ValueError" =>
       /\ fn_in.fname \in TypedDiffs
       /\ ~(fn_in.x.dtype = "float64" /\ fn_in.x.contiguous)
       /\ fn_out = << >>
  /\ (fn_in.fname \in TypedDiffs /\ fn_pc \in {"loop", "returned"}) =>
       fn_in.x.dtype = "float64" /\ fn_in.x.contiguous
  /\ fn_loc.reads \subseteq DOMAIN fn_loc.x0.elems

C17_Witness ==
  /\ fn_pc = "returned" /\ fn_in.fname = "cy_diff2"
  /\ Size(fn_in.x.elems) = 3 /\ fn_out[0] = 2 /\ fn_out[1] = -1
  /\ fn_loc.reads = {0, 1, 2}

\* ------------------------------------------------------------------------
\* MyCodePrinter._print_Pow
\* ------------------------------------------------------------------------
\* C18 as claimed: an Integer exponent 1..4 prints the base that many times
\* joined by '*'; every power with another exponent prints as the C99
\* printer prints it.
C18_Claimed ==
  fn_pc # "doprint" =>
    fn_out = IF IsInteger(fn_in.exp) /\ fn_in.exp.num \in 1..4
             THEN Printed(Join(fn_in.base, fn_in.exp.num))
             ELSE Printed(SuperPrintPow(fn_in.base, fn_in.exp))

\* ------------------------------------------------------------------------
\* CMatrixPrinter
\* ------------------------------------------------------------------------
\* the tokens of a printed line after its " = "
Rhs(line) == SubSeq(line, (CHOOSE q \in 1..Len(line) : line[q] = " = ") + 1, Len(line))

\* C19 as claimed: after the 'double xK = ...' lines the element assignments
\* print the cse-simplified matrix, and every declared temporary occurs in
\* the right-hand side of a later line.
C19_Claimed ==
  fn_pc = "printed matrix" =>
    LET res == cse(fn_in)
        nd  == Len(res.sub_exprs)
    IN  /\ Len(fn_out) = nd + Len(fn_in)
        /\ \A q \in 1..Len(fn_in) :
             fn_out[nd + q] = PrintAssignment("M[" \o ToString(q - 1) \o "]", res.simplified[q])
        /\ \A q \in 1..nd :
             \E q2 \in (q + 1)..Len(fn_out) :
               \E t \in 1..Len(Rhs(fn_out[q2])) : Rhs(fn_out[q2])[t] = res.sub_exprs[q].var.name

\* ------------------------------------------------------------------------
\* integrate_vode: the arguments of f_eval and j_eval
\* ------------------------------------------------------------------------
\* C20 as claimed: every callback(t, y, ...) of the solver invokes f_eval /
\* j_eval with the state first, the time second and then the values of
\* params as separate arguments, in order; with empty params nothing follows.
C20_Claimed ==
  eval_args.fn # "none" =>
    /\ eval_args.first = eval_args.cb.y
    /\ eval_args.second = eval_args.cb.t
    /\ Len(eval_args.rest) = Len(vo_params)
    /\ \A q \in 1..Len(vo_params) :
         eval_args.rest[q].kind = "float" /\ eval_args.rest[q] = vo_params[q]

\* ------------------------------------------------------------------------
\* MOLsys.j_eval
\* ------------------------------------------------------------------------
FracEq(a, b) == a.num * b.den = b.num * a.den

\* what f_eval returns for the state vector y
FEvalAt(y) ==
  [q \in 0..(Ny(mol_sys) * n_lines - 1) |->
     LET ny == Ny(mol_sys)
         i  == q \div ny
     IN  BinValue(mol_sys, second_derivatives_spatial(mol_sys, i, y, dx).out, D,
                  DirectF(mol_sys, Slc(mol_sys, i, y), mol_params), q % ny)]

\* d f_eval[row] / d y[col] at mol_y: the central difference, which is exact for
\* reaction terms of degree two or less in each concentration
DfDy(row, col) ==
  LET up == FEvalAt([mol_y EXCEPT ![col] = @ + 1])[row]
      dn == FEvalAt([mol_y EXCEPT ![col] = @ - 1])[row]
  IN  Frac(up.num - dn.num, 2 * up.den)

\* the reaction Jacobian of the bin of a row at a column: zero outside the
\* diagonal block
ReactionJ(row, col) ==
  LET ny == Ny(mol_sys)
  IN  IF row \div ny = col \div ny
      THEN DirectJ(mol_sys, Slc(mol_sys, row \div ny, mol_y), mol_params)[<<row % ny, col % ny>>].v
      ELSE 0

\* the diffusion weights of a row that fall on a column, in units of 1/dx**2
DiffusionWeight(row, col) ==
  LET ny == Ny(mol_sys)
      n  == ny * n_lines
      j  == row % ny
      kb == central_reference_bin(mol_sys, row \div ny)
      at(q) == IF (IF q >= 0 THEN q ELSE n + q) = col THEN 1 ELSE 0
  IN  D[j] * (at((kb - 1) * ny + j) - 2 * at(kb * ny + j) + at((kb + 1) * ny + j))

\* C21: the matrix j_eval returns is the Jacobian of f_eval: every entry is
\* the derivative of the f_eval component of its row by the state of its
\* column, and it is the reaction Jacobian of the row's bin (zero outside
\* the diagonal block) plus the weights D[j]/dx**2, -2*D[j]/dx**2, D[j]/dx**2
\* at the three columns f_eval's stencil reads for that row.
C21_Jacobian ==
  /\ mol_pc = "returned" =>
       f_out = [q \in DOMAIN f_out |-> Val(FEvalAt(mol_y)[q])]
  /\ mol_pc = "j returned" =>
       \A rc \in DOMAIN j_out :
         /\ FracEq(j_out[rc], DfDy(rc[1], rc[2]))
         /\ FracEq(j_out[rc], Frac(ReactionJ(rc[1], rc[2]) * dx * dx + DiffusionWeight(rc[1], rc[2]),
                                   dx * dx))

C21_Witness ==
  /\ mol_pc = "j returned"
  /\ Ny(mol_sys) = 3
  /\ ReactionJ(3, 3) # 0
  /\ DiffusionWeight(3, 3) = -2 * D[0]
  /\ FracEq(j_out[<<3, 3>>], Frac(ReactionJ(3, 3) * dx * dx - 2 * D[0], dx * dx))

\* ------------------------------------------------------------------------
\* MOLsys: the indices of the stencil
\* ------------------------------------------------------------------------
\* C22 as claimed: every index (k-1)*ny + j, k*ny + j, (k+1)*ny + j that
\* f_eval, second_derivatives_spatial and j_eval use lies in
\* 0 .. ny*n_lines - 1, for every n_lines >= 3 and ny >= 1: none is negative
\* and none is past the end.
C22_Claimed ==
  /\ mol_pc # "IndexError"
  /\ \A q \in mol_acc : q >= 0 /\ q < Ny(mol_sys) * n_lines

\* ------------------------------------------------------------------------
\* MOLsys.integrate
\* ------------------------------------------------------------------------
\* C23: for y0 given as ny arrays of n_lines values, the flat state passed to
\* the solver holds species j of bin i at index i*ny + j, where f_eval and
\* j_eval read it, and the returned trajectory has shape
\* (len(tout), ny, n_lines), element [t][j][i] being element i*ny + j of row
\* t of the solver's result, so that [0][j][i] is y0[j][i].
C23_Layout ==
  /\ mol_pc \in {"integrate", "integrated", "integrate returned"} =>
       \A i \in 0..(n_lines - 1), j \in 0..(Ny(mol_sys) - 1) :
         /\ fn_loc.y0[i * Ny(mol_sys) + j] = fn_in.y0[j][i]
         /\ Slc(mol_sys, i, fn_loc.y0)[j] = fn_in.y0[j][i]
  /\ mol_pc = "integrate returned" =>
       /\ fn_out.shape = <<Size(fn_in.tout), Ny(mol_sys), n_lines>>
       /\ \A i \in 0..(n_lines - 1), j \in 0..(Ny(mol_sys) - 1) :
            /\ fn_out.at[<<0, j, i>>] = fn_in.y0[j][i]
            /\ \A t \in 0..(Size(fn_in.tout) - 1) :
                 fn_out.at[<<t, j, i>>] = fn_loc.yout[t][i * Ny(mol_sys) + j]

C23_Witness ==
  /\ mol_pc = "integrate returned"
  /\ Ny(mol_sys) = 2 /\ n_lines = 3 /\ Size(fn_in.tout) = 2
  /\ fn_in.y0[1][2] = 12
  /\ fn_loc.y0[5] = 12
  /\ fn_out.at[<<0, 1, 2>>] = 12
  /\ fn_out.at[<<1, 1, 2>>] = 13

====
